---- MODULE Spec2Model ----
(***************************************************************************)
(* Agent execution engine of universal-rag: the think-act-observe loop of  *)
(* services/agent_service.py (run_agent_loop), its tool-call parser, the   *)
(* SSE event constructors of services/sse_utils.py and the chat route that *)
(* drives the loop for one user turn (api/routes/chat.py, event_stream).   *)
(* Also the WHERE-clause builder of services/matching_service.py           *)
(* (_build_filter_sql), a pure function, which has a specification of its  *)
(* own (SpecFilter), and the Markdown outline parser of                    *)
(* services/document_service.py (parse_markdown_nodes), whose loop over    *)
(* the lines is SpecMarkdown.                                              *)
(*                                                                         *)
(* Texts are TLA+ strings.  The Chinese status messages of the source are  *)
(* written in ASCII (the parser of this toolchain reads ASCII only); each  *)
(* stand-in names the source string it replaces.                           *)
(***************************************************************************)
EXTENDS Integers, Sequences, FiniteSets, TLC

VARIABLES
    run,    \* session -> the locals of its run_agent_loop invocation
    es,     \* session -> the locals of its send_chat_message.event_stream
    db,     \* chat_messages table: the rows append_message has inserted
    filter, \* a call of matching_service._build_filter_sql: argument and result
    parse   \* a call of document_service.parse_markdown_nodes: its locals

vars == <<run, es, db, filter, parse>>

-----------------------------------------------------------------------------
(* Bounds of the model *)

\* most lines of a text given to parse_markdown_nodes
MaxLines == 4
\* largest max_steps a direct caller of run_agent_loop passes
MaxSteps == 4
\* max_steps of each of two concurrent invocations
MaxPairSteps == 2

(* Program constants *)

\* agent_service.py:125  repeat_limit = 2
repeat_limit == 2
\* agent_service.py:103  max_steps: int = 10 (the value event_stream runs with)
DefaultMaxSteps == 10
\* agent_service.py:201  str(result)[:50]
PreviewLen == 50

-----------------------------------------------------------------------------
(* Text helpers *)

Min(a, b) == IF a <= b THEN a ELSE b

\* Python s[:n]
Take(s, n) == SubSeq(s, 1, Min(n, Len(s)))

\* Python s.replace("\n", " "): scan s from position i, left to right
RECURSIVE ReplaceNewlinesFrom(_, _)
ReplaceNewlinesFrom(s, i) ==
    IF i > Len(s) THEN ""
    ELSE (IF SubSeq(s, i, i) = "\n" THEN " " ELSE SubSeq(s, i, i))
         \o ReplaceNewlinesFrom(s, i + 1)
ReplaceNewlines(s) == ReplaceNewlinesFrom(s, 1)

\* Python s.startswith(p)
StartsWith(s, p) == Len(s) >= Len(p) /\ SubSeq(s, 1, Len(p)) = p

-----------------------------------------------------------------------------
(* JSON values, as json.loads returns them:                                *)
(*   [t |-> "null"], [t |-> "str", s |-> text], [t |-> "num", n |-> int],  *)
(*   [t |-> "arr", a |-> <<values>>],                                      *)
(*   [t |-> "obj", o |-> <<[k |-> key, v |-> value], ...>>]  (a dict, in   *)
(*   insertion order).                                                     *)

JNull == [t |-> "null"]
JStr(s) == [t |-> "str", s |-> s]
JNum(n) == [t |-> "num", n |-> n]
JArr(a) == [t |-> "arr", a |-> a]
JObj(o) == [t |-> "obj", o |-> o]

\* key in dict
HasKey(d, key) == \E i \in 1..Len(d.o) : d.o[i].k = key

\* dict.get(key): the value, or None
Get(d, key) ==
    IF HasKey(d, key)
    THEN d.o[CHOOSE i \in 1..Len(d.o) : d.o[i].k = key].v
    ELSE JNull

\* Python truthiness of a decoded JSON value
Truthy(v) ==
    CASE v.t = "null" -> FALSE
      [] v.t = "str" -> Len(v.s) > 0
      [] v.t = "num" -> v.n # 0
      [] v.t = "arr" -> Len(v.a) > 0
      [] v.t = "obj" -> Len(v.o) > 0

\* the keys the model knows, in the order str.__lt__ gives them
KeyOrder == <<"args", "query", "tender_id", "tool", "top_k">>
KeyRank(key) == CHOOSE i \in 1..Len(KeyOrder) : KeyOrder[i] = key

\* the items of a dict ordered by key (json.dumps(..., sort_keys=True)): the
\* item at position i is the one that has i - 1 items with a smaller key
SortItems(items) ==
    CHOOSE sorted \in
        { [i \in 1..Len(o) |->
              o[CHOOSE j \in 1..Len(o) :
                    Cardinality({k \in 1..Len(o) : KeyRank(o[k].k) < KeyRank(o[j].k)})
                        = i - 1]] : o \in {items} } : TRUE

\* json.dumps(v, sort_keys=sorted): the text of a value, separators ", " and ": "
RECURSIVE Dumps(_, _)
RECURSIVE DumpsSeq(_, _)
RECURSIVE DumpsItems(_, _)
DumpsSeq(a, sorted) ==
    IF Len(a) = 0 THEN ""
    ELSE Dumps(a[1], sorted)
         \o (IF Len(a) > 1 THEN ", " \o DumpsSeq(Tail(a), sorted) ELSE "")
DumpsItems(o, sorted) ==
    IF Len(o) = 0 THEN ""
    ELSE "\"" \o o[1].k \o "\": " \o Dumps(o[1].v, sorted)
         \o (IF Len(o) > 1 THEN ", " \o DumpsItems(Tail(o), sorted) ELSE "")
Dumps(v, sorted) ==
    CASE v.t = "null" -> "null"
      [] v.t = "str" -> "\"" \o v.s \o "\""
      [] v.t = "num" -> ToString(v.n)
      [] v.t = "arr" -> "[" \o DumpsSeq(v.a, sorted) \o "]"
      [] v.t = "obj" ->
            "{" \o DumpsItems(IF sorted THEN SortItems(v.o) ELSE v.o, sorted) \o "}"

-----------------------------------------------------------------------------
(* Model replies.  The content of a ModelResponse is a text; the model     *)
(* keeps the structure the parser looks for:                               *)
(*   prose  text before the payload ("" when there is none),               *)
(*   fence  "none", "json" (a fence tagged json) or "plain" (no tag),     *)
(*   doc    the payload: [k |-> "none"] (content is None),                 *)
(*          [k |-> "text", s |-> text that is not JSON],                   *)
(*          [k |-> "json", v |-> the JSON value the text denotes],         *)
(*          [k |-> "deep"] (JSON nested deeper than the recursion limit).  *)

NoneContent == [prose |-> "", fence |-> "none", doc |-> [k |-> "none"]]
TextContent(s) == [prose |-> "", fence |-> "none", doc |-> [k |-> "text", s |-> s]]
JsonContent(prose, fence, v) ==
    [prose |-> prose, fence |-> fence, doc |-> [k |-> "json", v |-> v]]
DeepContent == [prose |-> "", fence |-> "none", doc |-> [k |-> "deep"]]

\* stand-in for the three backticks of a Markdown fence
Fence == "~~~"

\* stand-in for a reply of 1100 opening brackets
DeepText == "[[[[[[[[[[[["

\* the payload as text
Body(c) ==
    CASE c.doc.k = "none" -> ""
      [] c.doc.k = "text" -> c.doc.s
      [] c.doc.k = "json" -> Dumps(c.doc.v, FALSE)
      [] c.doc.k = "deep" -> DeepText

\* response.content or "": the raw text of the reply
RawText(c) ==
    CASE c.fence = "none" -> c.prose \o Body(c)
      [] c.fence = "json" -> c.prose \o Fence \o "json\n" \o Body(c) \o "\n" \o Fence
      [] c.fence = "plain" -> c.prose \o Fence \o "\n" \o Body(c) \o "\n" \o Fence

\* the regular expression of line 73: a json fence around a text from an
\* opening brace to a closing brace
JsonBlockMatches(c) ==
    /\ c.fence = "json"
    /\ StartsWith(Body(c), "{")
    /\ SubSeq(Body(c), Len(Body(c)), Len(Body(c))) = "}"

\* the text handed to json.loads: the fenced block when the regex matches,
\* else the whole content with leading backticks and a leading "json" cut off
LoadsWholeBody(c) ==
    \/ JsonBlockMatches(c)
    \/ c.fence = "none" /\ c.prose = ""
    \/ c.fence # "none" /\ StartsWith(RawText(c), Fence)

\* json.loads(text): a value, JSONDecodeError, or RecursionError
Loads(c) ==
    IF ~LoadsWholeBody(c) THEN [kind |-> "decode_error"]
    ELSE CASE c.doc.k = "none" -> [kind |-> "decode_error"]
           [] c.doc.k = "text" -> [kind |-> "decode_error"]
           [] c.doc.k = "deep" -> [kind |-> "recursion_error"]
           [] c.doc.k = "json" -> [kind |-> "value", v |-> c.doc.v]

RecursionErrorText == "maximum recursion depth exceeded while decoding a JSON array"

\* ParseToolCall that also asks for a string tool and a mapping args
ParseToolCall_Typed(c) ==
    LET d == Loads(c) IN
    CASE d.kind = "recursion_error" -> [kind |-> "raise", text |-> RecursionErrorText]
      [] d.kind = "decode_error" -> [kind |-> "none"]
      [] d.kind = "value" ->
            IF d.v.t = "obj" /\ HasKey(d.v, "tool") /\ HasKey(d.v, "args")
               /\ Get(d.v, "tool").t = "str" /\ Get(d.v, "args").t = "obj"
            THEN [kind |-> "call", data |-> d.v]
            ELSE [kind |-> "none"]

\* _parse_tool_call(content): the decoded dict, None, or an exception that
\* is not a JSONDecodeError and so leaves the function
ParseToolCall(c) ==
    LET d == Loads(c) IN
    CASE d.kind = "recursion_error" -> [kind |-> "raise", text |-> RecursionErrorText]
      [] d.kind = "decode_error" -> [kind |-> "none"]
      [] d.kind = "value" ->
            IF d.v.t = "obj" /\ HasKey(d.v, "tool") /\ HasKey(d.v, "args")
            THEN [kind |-> "call", data |-> d.v]
            ELSE [kind |-> "none"]

\* tool_name = tool_call.get("tool"); "" unless it is a str
ToolName(data) ==
    LET x == Get(data, "tool") IN IF x.t = "str" THEN x.s ELSE ""

\* tool_args = tool_call.get("args") or {}
ToolArgs(data) ==
    LET x == Get(data, "args") IN IF Truthy(x) THEN x ELSE JObj(<<>>)

\* ToolSignature without sort_keys: the keys stay in the order of the reply
ToolSignature_Unsorted(tool_name, tool_args) ==
    Dumps(JObj(<<[k |-> "tool", v |-> JStr(tool_name)],
                 [k |-> "args", v |-> tool_args]>>), FALSE)

\* json.dumps({"tool": tool_name, "args": tool_args}, sort_keys=True)
ToolSignature(tool_name, tool_args) ==
    Dumps(JObj(<<[k |-> "tool", v |-> JStr(tool_name)],
                 [k |-> "args", v |-> tool_args]>>), TRUE)

-----------------------------------------------------------------------------
(* SSE events (sse_utils.py).  The framing "event: <name>\ndata: <json>"   *)
(* is kept as a record of the event name and its payload.                  *)

sse_event(event, data) == [event |-> event, data |-> data]

sse_status(state, step, total, message) ==
    sse_event("status",
              [state |-> state, step |-> step, total |-> total, message |-> message])

sse_chunk(content) == sse_event("chunk", [content |-> content])

sse_error(message) == sse_event("error", [message |-> message, code |-> "UNKNOWN"])

\* chat.py _sse_event("done", {"message_id": id})
sse_done(message_id) == sse_event("done", [message_id |-> message_id])

\* the status messages of run_agent_loop
MsgThinking == "thinking..."                \* line 127
MsgDone == "done"                           \* line 212
MsgRepeatDetected == "repeated call detected"   \* line 159
MsgRepeatLimit == "repeated tool call limit exceeded, execution terminated"  \* line 153
MsgStepLimit == "Task limit exceeded (Max steps reached)."   \* line 223
MsgCallingTool(tool_name) == "calling tool: " \o tool_name   \* line 175
MsgToolReturned(preview) == "tool returned: " \o preview \o "..."   \* line 202
MsgAgentFailed(text) == "Agent execution failed: " \o text   \* line 219

-----------------------------------------------------------------------------
(* Prompt assembly (_load_system_prompt) *)

\* Python s.replace(old, new): scan s from position i, left to right
RECURSIVE ReplaceFrom(_, _, _, _)
ReplaceFrom(s, i, old, new) ==
    IF i + Len(old) - 1 > Len(s) THEN SubSeq(s, i, Len(s))
    ELSE IF SubSeq(s, i, i + Len(old) - 1) = old
         THEN new \o ReplaceFrom(s, i + Len(old), old, new)
         ELSE SubSeq(s, i, i) \o ReplaceFrom(s, i + 1, old, new)
Replace(s, old, new) == ReplaceFrom(s, 1, old, new)

\* json.dumps(ToolRegistry.get_all_schemas(), ...): the registered schemas as text
SchemaJson == "[search_knowledge_base(query, top_k)]"

\* the content of prompts/agent/system.md when the file exists
TemplateFile == "Agent rules. Tools: {tool_schemas}"
\* the built-in template of line 55
FallbackTemplate == "You are a helpful assistant. Tools: {tool_schemas}"

\* AgentService.get_system_prompt: the agent's prompt, or the default text
\* when the agent is unknown or has no prompt
DefaultAgentPrompt ==
    "You are a professional knowledge base assistant. Answer based on retrieved content."
get_system_prompt(agent) ==
    IF agent.kind = "found" /\ Len(agent.prompt) > 0 THEN agent.prompt
    ELSE DefaultAgentPrompt

\* load_system_prompt without the fallback: a missing template file raises
load_system_prompt_NoFallback(agent, template_exists) ==
    IF agent.kind = "raise" THEN [kind |-> "raise", text |-> agent.text]
    ELSE IF ~template_exists
    THEN [kind |-> "raise", text |-> "No such file or directory: 'prompts/agent/system.md'"]
    ELSE LET custom_prompt == IF agent.kind = "none" THEN "" ELSE get_system_prompt(agent)
             result == Replace(TemplateFile, "{tool_schemas}", SchemaJson)
         IN [kind |-> "ok",
             text |-> IF Len(custom_prompt) > 0
                      THEN custom_prompt \o "\n\n---\n\n" \o result
                      ELSE result]

\* _load_system_prompt(agent_id), given what the agent lookup does and whether
\* the template file exists: the prompt text, or the lookup's exception
load_system_prompt(agent, template_exists) ==
    IF agent.kind = "raise" THEN [kind |-> "raise", text |-> agent.text]
    ELSE LET custom_prompt == IF agent.kind = "none" THEN "" ELSE get_system_prompt(agent)
             template == IF template_exists THEN TemplateFile ELSE FallbackTemplate
             result == Replace(template, "{tool_schemas}", SchemaJson)
         IN [kind |-> "ok",
             text |-> IF Len(custom_prompt) > 0
                      THEN custom_prompt \o "\n\n---\n\n" \o result
                      ELSE result]

Message(role, content) == [role |-> role, content |-> content]

-----------------------------------------------------------------------------
(* Tool registry and tools *)

\* the tools services/tools/__init__.py imports, hence registers
Registry == {"search_knowledge_base"}

\* ToolRegistry.get_tool(tool_name) if tool_name else None: is a class found
GetTool(tool_name) == Len(tool_name) > 0 /\ tool_name \in Registry

\* tool_cls(**tool_args) for RAGSearchTool: query is required and a text,
\* top_k an integer when given; anything else raises
ConstructOk(tool_name, tool_args) ==
    /\ tool_args.t = "obj"
    /\ HasKey(tool_args, "query") /\ Get(tool_args, "query").t = "str"
    /\ HasKey(tool_args, "top_k") => Get(tool_args, "top_k").t = "num"
ConstructErrorText == "1 validation error for RAGSearchTool: query field required"

-----------------------------------------------------------------------------
(* run_agent_loop: one record per invocation.                              *)
(*   pc  where the generator is suspended: "init" (not started),           *)
(*       "y_*" (at a yield), "in_chat", "in_tool", "in_sleep" (at an       *)
(*       await), "returned", "raised"                                      *)
(*   events      what it has yielded so far                                *)
(*   model_log   the outcome of each chat() call so far                    *)
(*   tool_log    each lookup/construct/run it has made                     *)
(*   tool_outcomes  what each run() it awaited has returned or raised      *)
(*   cancelled_at  where it was and what it had done when the consumer     *)
(*                 cancelled or closed it                                  *)

NoSignature == "None"

\* the generator has not been cancelled or closed
NoCancel == [pc |-> "none", step |-> 0, events |-> 0, calls |-> 0, tools |-> 0, messages |-> 0]

NewRun(user_content, history, max_steps, agent, template_exists, model_may, tool_may) ==
    [pc |-> "init",
     user_content |-> user_content, history |-> history, max_steps |-> max_steps,
     agent |-> agent, template_exists |-> template_exists,
     model_may |-> model_may, tool_may |-> tool_may,
     messages |-> <<>>, current_step |-> 0, final_answer |-> "",
     last_tool_signature |-> NoSignature, repeat_count |-> 0,
     content |-> NoneContent, tool_name |-> "", tool_args |-> JObj(<<>>),
     events |-> <<>>, model_log |-> <<>>, tool_log |-> <<>>, exception |-> "",
     tool_outcomes |-> <<>>, cancelled_at |-> NoCancel]

Emit(r, e) == [r EXCEPT !.events = Append(@, e)]

\* StartLoop that puts the new user message before the history
StartLoop_UserBeforeHistory(r) ==
    LET p == load_system_prompt(r.agent, r.template_exists) IN
    IF p.kind = "raise"
    THEN [r EXCEPT !.pc = "raised", !.exception = p.text]
    ELSE Emit([r EXCEPT !.pc = "y_thinking0",
                        !.messages = <<Message("system", p.text)>>
                                     \o <<Message("user", r.user_content)>> \o r.history,
                        !.current_step = 0, !.final_answer = "",
                        !.last_tool_signature = NoSignature, !.repeat_count = 0],
              sse_status("THINKING", 1, r.max_steps, MsgThinking))

\* StartLoop that turns an exception of the prompt loader into an Error event
StartLoop_ErrorEvent(r) ==
    LET p == load_system_prompt(r.agent, r.template_exists) IN
    IF p.kind = "raise"
    THEN Emit([r EXCEPT !.pc = "y_error"], sse_error(MsgAgentFailed(p.text)))
    ELSE Emit([r EXCEPT !.pc = "y_thinking0",
                        !.messages = <<Message("system", p.text)>> \o r.history
                                     \o <<Message("user", r.user_content)>>,
                        !.current_step = 0, !.final_answer = "",
                        !.last_tool_signature = NoSignature, !.repeat_count = 0],
              sse_status("THINKING", 1, r.max_steps, MsgThinking))

\* lines 116-127: build the messages, initialise the loop state, yield the
\* first Status(THINKING); an exception of the prompt loader leaves the generator
StartLoop(r) ==
    LET p == load_system_prompt(r.agent, r.template_exists) IN
    IF p.kind = "raise"
    THEN [r EXCEPT !.pc = "raised", !.exception = p.text]
    ELSE Emit([r EXCEPT !.pc = "y_thinking0",
                        !.messages = <<Message("system", p.text)>> \o r.history
                                     \o <<Message("user", r.user_content)>>,
                        !.current_step = 0, !.final_answer = "",
                        !.last_tool_signature = NoSignature, !.repeat_count = 0],
              sse_status("THINKING", 1, r.max_steps, MsgThinking))

\* LoopTop that spins: neither a step is started nor the limit is reported
LoopTop_Spin(r) == r

\* LoopTop with the test current_step <= max_steps
LoopTop_Inclusive(r) ==
    IF r.current_step <= r.max_steps
    THEN [r EXCEPT !.pc = "in_chat", !.current_step = @ + 1]
    ELSE Emit([r EXCEPT !.pc = "y_error"], sse_error(MsgStepLimit))

\* LoopTop without the yield of line 223: the generator just ends
LoopTop_SilentExit(r) ==
    IF r.current_step < r.max_steps
    THEN [r EXCEPT !.pc = "in_chat", !.current_step = @ + 1]
    ELSE [r EXCEPT !.pc = "returned"]

\* lines 129-135 and 222-223: the loop test; either the next step starts and
\* chat(messages) is awaited, or the step-limit error is yielded
LoopTop(r) ==
    IF r.current_step < r.max_steps
    THEN [r EXCEPT !.pc = "in_chat", !.current_step = @ + 1]
    ELSE Emit([r EXCEPT !.pc = "y_error"], sse_error(MsgStepLimit))

\* OnException that lets the exception leave the generator
OnException_Reraise(r, text) == [r EXCEPT !.pc = "raised", !.exception = text]

\* lines 217-220: the handler of the loop body
OnException(r, text) ==
    Emit([r EXCEPT !.pc = "y_error"], sse_error(MsgAgentFailed(text)))

\* the corrective message of line 156
RepeatMessage(tool_name) ==
    "Error: Repeated tool call '" \o tool_name \o "' with same arguments. Stop and answer."

\* OnRepeatedCall without the return of line 154: the loop goes on after the Error
OnRepeatedCall_NoReturn(r, content, tool_name) ==
    IF r.repeat_count + 1 > repeat_limit
    THEN Emit([r EXCEPT !.pc = "y_warning", !.repeat_count = @ + 1],
              sse_error(MsgRepeatLimit))
    ELSE Emit([r EXCEPT !.pc = "y_warning", !.repeat_count = @ + 1,
                 !.messages = @ \o <<Message("assistant", RawText(content)),
                                    Message("user", RepeatMessage(tool_name))>>],
              sse_status("ERROR", r.current_step, r.max_steps, MsgRepeatDetected))

\* OnRepeatedCall with the breaker firing when the count reaches the limit
OnRepeatedCall_AtLimit(r, content, tool_name) ==
    IF r.repeat_count + 1 >= repeat_limit
    THEN Emit([r EXCEPT !.pc = "y_error", !.repeat_count = @ + 1],
              sse_error(MsgRepeatLimit))
    ELSE Emit([r EXCEPT !.pc = "y_warning", !.repeat_count = @ + 1,
                 !.messages = @ \o <<Message("assistant", RawText(content)),
                                    Message("user", RepeatMessage(tool_name))>>],
              sse_status("ERROR", r.current_step, r.max_steps, MsgRepeatDetected))

\* OnRepeatedCall that forgets the signature after a warning
OnRepeatedCall_ForgetSignature(r, content, tool_name) ==
    IF r.repeat_count + 1 > repeat_limit
    THEN Emit([r EXCEPT !.pc = "y_error", !.repeat_count = @ + 1],
              sse_error(MsgRepeatLimit))
    ELSE Emit([r EXCEPT !.pc = "y_warning", !.repeat_count = @ + 1,
                 !.last_tool_signature = NoSignature,
                 !.messages = @ \o <<Message("assistant", RawText(content)),
                                    Message("user", RepeatMessage(tool_name))>>],
              sse_status("ERROR", r.current_step, r.max_steps, MsgRepeatDetected))

\* OnRepeatedCall that gives the step back after a warning: only executed
\* calls use up the budget
OnRepeatedCall_RefundStep(r, content, tool_name) ==
    IF r.repeat_count + 1 > repeat_limit
    THEN Emit([r EXCEPT !.pc = "y_error", !.repeat_count = @ + 1],
              sse_error(MsgRepeatLimit))
    ELSE Emit([r EXCEPT !.pc = "y_warning", !.repeat_count = @ + 1,
                 !.current_step = @ - 1,
                 !.messages = @ \o <<Message("assistant", RawText(content)),
                                    Message("user", RepeatMessage(tool_name))>>],
              sse_status("ERROR", r.current_step, r.max_steps, MsgRepeatDetected))

\* lines 151-166: the call repeats the stored signature: count it; past the
\* limit yield the Error (and return), else append the corrective message and
\* yield the warning Status; the stored signature stays
OnRepeatedCall(r, content, tool_name) ==
    IF r.repeat_count + 1 > repeat_limit
    THEN Emit([r EXCEPT !.pc = "y_error", !.repeat_count = @ + 1],
              sse_error(MsgRepeatLimit))
    ELSE Emit([r EXCEPT !.pc = "y_warning", !.repeat_count = @ + 1,
                 !.messages = @ \o <<Message("assistant", RawText(content)),
                                    Message("user", RepeatMessage(tool_name))>>],
              sse_status("ERROR", r.current_step, r.max_steps, MsgRepeatDetected))

\* OnNewCall without the reset of line 169: the count of an earlier run of
\* repeats is carried over
OnNewCall_KeepCount(r, content, tool_name, tool_args, tool_signature) ==
    Emit([r EXCEPT !.pc = "y_executing",
                   !.last_tool_signature = tool_signature,
                   !.content = content, !.tool_name = tool_name, !.tool_args = tool_args],
         sse_status("EXECUTING", r.current_step, r.max_steps, MsgCallingTool(tool_name)))

\* lines 168-176: a new signature: store it, reset the count, yield Status(EXECUTING)
OnNewCall(r, content, tool_name, tool_args, tool_signature) ==
    Emit([r EXCEPT !.pc = "y_executing",
                   !.last_tool_signature = tool_signature, !.repeat_count = 0,
                   !.content = content, !.tool_name = tool_name, !.tool_args = tool_args],
         sse_status("EXECUTING", r.current_step, r.max_steps, MsgCallingTool(tool_name)))

\* lines 141-176: the tool-call branch up to its first yield
OnToolCall(r, content, data) ==
    LET tool_name == ToolName(data)
        tool_args == ToolArgs(data)
        tool_signature == ToolSignature(tool_name, tool_args)
    IN IF tool_signature = r.last_tool_signature
       THEN OnRepeatedCall(r, content, tool_name)
       ELSE OnNewCall(r, content, tool_name, tool_args, tool_signature)

\* lines 208-213: the final-answer branch up to the yield of Status(DONE)
OnFinalAnswer(r, content) ==
    Emit([r EXCEPT !.pc = "y_done", !.final_answer = RawText(content)],
         sse_status("DONE", r.current_step, r.max_steps, MsgDone))

\* lines 135-220: chat(messages) has returned a response or raised
OnModelResult(r, outcome) ==
    LET r1 == [r EXCEPT !.model_log = Append(@, outcome)] IN
    IF outcome.kind = "raise" THEN OnException(r1, outcome.text)
    ELSE LET tool_call == ParseToolCall(outcome.content) IN
         CASE tool_call.kind = "raise" -> OnException(r1, tool_call.text)
           [] tool_call.kind = "call" -> OnToolCall(r1, outcome.content, tool_call.data)
           [] tool_call.kind = "none" -> OnFinalAnswer(r1, outcome.content)

\* FoldResult that appends the observation without the model's call before it
FoldResult_ObservationOnly(r, result) ==
    LET result_preview == ReplaceNewlines(Take(result, PreviewLen)) IN
    Emit([r EXCEPT !.pc = "y_thinking",
                   !.messages = @ \o
                       <<Message("user", "Tool '" \o r.tool_name \o "' Result: " \o result)>>],
         sse_status("THINKING", r.current_step + 1, r.max_steps,
                    MsgToolReturned(result_preview)))

\* FoldResult that yields the Status but appends nothing to the messages
FoldResult_NoObservation(r, result) ==
    LET result_preview == ReplaceNewlines(Take(result, PreviewLen)) IN
    Emit([r EXCEPT !.pc = "y_thinking"],
         sse_status("THINKING", r.current_step + 1, r.max_steps,
                    MsgToolReturned(result_preview)))

\* lines 194-202: fold the call and its result into the messages and yield
\* Status(THINKING) with the preview of the result
FoldResult(r, result) ==
    LET result_preview == ReplaceNewlines(Take(result, PreviewLen)) IN
    Emit([r EXCEPT !.pc = "y_thinking",
                   !.messages = @ \o
                       <<Message("assistant", RawText(r.content)),
                         Message("user", "Tool '" \o r.tool_name \o "' Result: " \o result)>>],
         sse_status("THINKING", r.current_step + 1, r.max_steps,
                    MsgToolReturned(result_preview)))

LogTool(r, what) ==
    [r EXCEPT !.tool_log = Append(@, [step |-> r.current_step, tool |-> r.tool_name,
                                      signature |-> r.last_tool_signature, what |-> what])]

\* Dispatch that starts run() in a worker thread and does not wait for it:
\* the loop goes on with a placeholder as the result
Dispatch_FireAndForget(r) ==
    IF ~GetTool(r.tool_name)
    THEN FoldResult(LogTool(r, "not_found"),
                    "Error: Tool '" \o (IF Len(r.tool_name) > 0 THEN r.tool_name ELSE "UNKNOWN")
                        \o "' not found.")
    ELSE IF ~ConstructOk(r.tool_name, r.tool_args)
         THEN FoldResult(LogTool(r, "construct_raised"),
                         "Error execution tool: " \o ConstructErrorText)
         ELSE FoldResult(LogTool(r, "run_started"), "pending")

\* Dispatch where an unknown tool name raises into the handler of the loop body
Dispatch_UnknownRaises(r) ==
    IF ~GetTool(r.tool_name)
    THEN Emit([LogTool(r, "not_found") EXCEPT !.pc = "y_error"],
              sse_error(MsgAgentFailed("unknown tool")))
    ELSE IF ~ConstructOk(r.tool_name, r.tool_args)
         THEN FoldResult(LogTool(r, "construct_raised"),
                         "Error execution tool: " \o ConstructErrorText)
         ELSE [LogTool(r, "run_started") EXCEPT !.pc = "in_tool"]

\* lines 179-187: look the tool up and construct it; an unknown tool and a
\* constructor that raises give their result at once, else run() is awaited
Dispatch(r) ==
    IF ~GetTool(r.tool_name)
    THEN FoldResult(LogTool(r, "not_found"),
                    "Error: Tool '" \o (IF Len(r.tool_name) > 0 THEN r.tool_name ELSE "UNKNOWN")
                        \o "' not found.")
    ELSE IF ~ConstructOk(r.tool_name, r.tool_args)
         THEN FoldResult(LogTool(r, "construct_raised"),
                         "Error execution tool: " \o ConstructErrorText)
         ELSE [LogTool(r, "run_started") EXCEPT !.pc = "in_tool"]

\* OnToolResult without the try of line 183: the exception of run() reaches
\* the handler of the loop body
OnToolResult_Unguarded(r, outcome) ==
    IF outcome.kind = "raise"
    THEN Emit([LogTool(r, "run_raised") EXCEPT !.pc = "y_error"],
              sse_error(MsgAgentFailed(outcome.text)))
    ELSE FoldResult(LogTool(r, "run_returned"), outcome.text)

\* lines 187-202: run() has returned its text or raised
OnToolResult(r, outcome) ==
    IF outcome.kind = "raise"
    THEN FoldResult(LogTool(r, "run_raised"), "Error execution tool: " \o outcome.text)
    ELSE FoldResult(LogTool(r, "run_returned"), outcome.text)

\* lines 165 and 205: await asyncio.sleep(1)
StartSleep(r) == [r EXCEPT !.pc = "in_sleep"]

\* lines 213-214: yield the answer
YieldChunk(r) == Emit([r EXCEPT !.pc = "y_chunk"], sse_chunk(r.final_answer))

\* Return without the return statements: the loop goes to its next iteration
Return_NextIteration(r) == LoopTop(r)

\* lines 154, 215, 220 and the end of the function: the generator returns
Return(r) == [r EXCEPT !.pc = "returned"]

\* the suspension points of the generator: its awaits and its yields
Awaits == {"in_chat", "in_tool", "in_sleep"}
Yields == {"y_thinking0", "y_executing", "y_thinking", "y_warning", "y_done", "y_chunk",
           "y_error"}

Snapshot(r) ==
    [pc |-> r.pc, step |-> r.current_step, events |-> Len(r.events),
     calls |-> Len(r.model_log), tools |-> Len(r.tool_log), messages |-> Len(r.messages)]

\* OnCancel where the handler of line 217 catches the cancellation
OnCancel_Swallowed(r) ==
    Emit([r EXCEPT !.pc = "y_error", !.cancelled_at = Snapshot(r)],
         sse_error(MsgAgentFailed("")))

\* the task is cancelled while the generator waits at lines 135, 165, 187 or
\* 205: the await raises CancelledError, which is no Exception, so neither
\* handler (lines 188, 217) catches it and it leaves the generator
OnCancel(r) ==
    [r EXCEPT !.pc = "cancelled", !.exception = "CancelledError",
              !.cancelled_at = Snapshot(r)]

\* the generator is closed while it is suspended at a yield: the yield raises
\* GeneratorExit, which no handler catches, and the generator ends
OnClose(r) == [r EXCEPT !.pc = "closed", !.cancelled_at = Snapshot(r)]

-----------------------------------------------------------------------------
(* send_chat_message.event_stream (api/routes/chat.py): one record per     *)
(* request.  pc "off" marks a session whose run_agent_loop is consumed by  *)
(* a direct caller that reads the generator to its end.                    *)

\* chat.py:227  get_recent_history(conn, session_id, limit=20)
HistoryLimit == 20

\* the rows of a session, oldest first, the newest `limit` of them
RECURSIVE SessionRows(_, _)
SessionRows(rows, session_id) ==
    IF Len(rows) = 0 THEN <<>>
    ELSE (IF rows[1].session_id = session_id THEN <<rows[1]>> ELSE <<>>)
         \o SessionRows(Tail(rows), session_id)
get_recent_history(rows, session_id, limit) ==
    LET mine == SessionRows(rows, session_id)
    IN SubSeq(mine, IF Len(mine) > limit THEN Len(mine) - limit + 1 ELSE 1, Len(mine))

\* lines 228-233: history rows as {role, content}
FormatHistory(history_rows) ==
    [i \in 1..Len(history_rows) |->
        Message(history_rows[i].role, history_rows[i].content)]

\* append_message: the table with the row inserted; its message_id is the
\* serial number of the row
append_message(rows, session_id, role, content) ==
    Append(rows, [message_id |-> Len(rows) + 1, session_id |-> session_id,
                  role |-> role, content |-> content])

\* "".join(final_content)
RECURSIVE Join(_)
Join(parts) == IF Len(parts) = 0 THEN "" ELSE parts[1] \o Join(Tail(parts))

NewStream(payload_content) ==
    [pc |-> "new", payload_content |-> payload_content,
     final_content |-> <<>>, stream |-> <<>>, exception |-> ""]

DirectConsumer ==
    [pc |-> "off", payload_content |-> "",
     final_content |-> <<>>, stream |-> <<>>, exception |-> ""]

\* lines 242-248: what event_stream does when the loop has taken a step:
\* forward the event the loop yielded, or go on after the loop has ended
Deliver(e, r, r2) ==
    IF e.pc = "off" THEN e
    ELSE IF Len(r2.events) > Len(r.events)
    THEN [e EXCEPT !.pc = "at_yield", !.stream = Append(@, r2.events[Len(r2.events)])]
    ELSE IF r2.pc = "returned" THEN [e EXCEPT !.pc = "loop_ended"]
    ELSE IF r2.pc = "raised" THEN [e EXCEPT !.pc = "raised", !.exception = r2.exception]
    ELSE e

\* lines 251-260: keep the content of a chunk event
Capture(e) ==
    LET sse == e.stream[Len(e.stream)] IN
    [e EXCEPT !.pc = "pulling",
              !.final_content = IF sse.event = "chunk" THEN Append(@, sse.data.content)
                                ELSE @]

DbErrorText == "Failed to insert chat message"

\* the request is cancelled while event_stream is inside its async for:
\* the exception leaves event_stream, nothing more is stored or yielded
EsCancelled(e) ==
    IF e.pc = "off" THEN e ELSE [e EXCEPT !.pc = "cancelled", !.exception = "CancelledError"]

-----------------------------------------------------------------------------
(* matching_service._build_filter_sql(constraints).  The constraints dict   *)
(* is a record of its eight keys; a key that is absent holds Unset, for    *)
(* which dict.get gives None.                                              *)

Unset == [t |-> "unset"]
JBool(b) == [t |-> "bool", b |-> b]

\* constraints.get(key)
GetConstraint(constraints, key) ==
    IF constraints[key] = Unset THEN JNull ELSE constraints[key]

\* the texts of the model that Decimal() accepts
DecimalTexts == {"50", "12.5"}

\* Decimal(str(v)): the number, or InvalidOperation for a text that is none
DecimalOfStr(v) ==
    CASE v.t = "num" -> [kind |-> "ok", value |-> [t |-> "decimal", text |-> ToString(v.n)]]
      [] v.t = "str" /\ v.s \in DecimalTexts ->
            [kind |-> "ok", value |-> [t |-> "decimal", text |-> v.s]]
      [] OTHER -> [kind |-> "raise"]

\* " AND ".join(conditions)
RECURSIVE JoinAnd(_)
JoinAnd(conditions) ==
    IF Len(conditions) = 0 THEN ""
    ELSE IF Len(conditions) = 1 THEN conditions[1]
    ELSE conditions[1] \o " AND " \o JoinAnd(Tail(conditions))

\* lines 74-135: only the min_amount filter is live code (the other filters
\* are commented out); its condition is appended before Decimal() is tried
\* and stays when Decimal() raises into the handler of line 101
build_filter_sql(constraints) ==
    LET min_amount == GetConstraint(constraints, "min_amount")
        d == DecimalOfStr(min_amount)
        conditions == IF min_amount # JNull THEN <<"amount >= %s">> ELSE <<>>
        params == IF min_amount # JNull /\ d.kind = "ok" THEN <<d.value>> ELSE <<>>
    IN [conditions |-> conditions,
        where_clause |-> IF Len(conditions) > 0 THEN JoinAnd(conditions) ELSE "1=1",
        params |-> params]

NoFilterCall == [pc |-> "none"]

-----------------------------------------------------------------------------
(* document_service.parse_markdown_nodes(markdown).  A DocumentNode is a   *)
(* record of node_id, parent_id, level, title and content (path stays      *)
(* empty here); NoNode stands for None as a parent_id and as current_node  *)
(* (node ids start at 1).                                                  *)

NoNode == 0

\* the white space of str.strip() and of \s, as far as the texts of the model
\* hold it
IsSpace(ch) == ch \in {" ", "\t", "\n"}

\* Python s.strip()
Strip(s) ==
    LET solid == {i \in 1..Len(s) : ~IsSpace(SubSeq(s, i, i))} IN
    IF solid = {} THEN ""
    ELSE SubSeq(s, CHOOSE a \in solid : \A j \in solid : a <= j,
                   CHOOSE b \in solid : \A j \in solid : b >= j)

\* markdown.splitlines(): cut at every "\n"; a text that ends in "\n" has no
\* empty last line, and the empty text has no line
RECURSIVE SplitLinesFrom(_, _, _)
SplitLinesFrom(s, i, start) ==
    IF i > Len(s)
    THEN (IF start > Len(s) THEN <<>> ELSE <<SubSeq(s, start, Len(s))>>)
    ELSE IF SubSeq(s, i, i) = "\n"
         THEN <<SubSeq(s, start, i - 1)>> \o SplitLinesFrom(s, i + 1, i + 1)
         ELSE SplitLinesFrom(s, i + 1, start)
SplitLines(s) == SplitLinesFrom(s, 1, 1)

\* "\n".join(lines)
RECURSIVE JoinLinesFrom(_, _)
JoinLinesFrom(lines, i) ==
    IF i > Len(lines) THEN ""
    ELSE lines[i] \o (IF i < Len(lines) THEN "\n" \o JoinLinesFrom(lines, i + 1) ELSE "")
JoinLines(lines) == JoinLinesFrom(lines, 1)

\* the number of "#" the text t has from position i on
RECURSIVE HashesFrom(_, _)
HashesFrom(t, i) ==
    IF i <= Len(t) /\ SubSeq(t, i, i) = "#" THEN 1 + HashesFrom(t, i + 1) ELSE 0

\* HEADING_PATTERN.match(line.strip()), pattern ^(#{1,6})\s+(.*)$ : one to six
\* "#", white space, the rest; level = len(group(1)), title = group(2).strip()
HeadingMatch(line) ==
    LET t == Strip(line)
        n == HashesFrom(t, 1)
    IN IF n >= 1 /\ n <= 6 /\ Len(t) > n /\ IsSpace(SubSeq(t, n + 1, n + 1))
       THEN [matched |-> TRUE, level |-> n, title |-> Strip(SubSeq(t, n + 1, Len(t)))]
       ELSE [matched |-> FALSE]

DocumentNode(node_id, parent_id, level, title, content) ==
    [node_id |-> node_id, parent_id |-> parent_id, level |-> level,
     title |-> title, content |-> content]

\* the locals of a call; current_node is the position in nodes of the node
\* the variable refers to
NewParse(markdown) ==
    [pc |-> "called", markdown |-> markdown, lines |-> <<>>, i |-> 0,
     nodes |-> <<>>, stack |-> <<>>, node_id |-> 0, current_node |-> NoNode,
     content_lines |-> <<>>]

NoParseCall == [pc |-> "none"]

\* lines 313-318: flush_content()
flush_content(p) ==
    IF p.current_node = NoNode THEN p
    ELSE [p EXCEPT !.nodes[p.current_node].content = Strip(JoinLines(p.content_lines)),
                   !.content_lines = <<>>]

\* PopStack that keeps an entry of the same level
RECURSIVE PopStack_KeepEqual(_, _)
PopStack_KeepEqual(stack, level) ==
    IF Len(stack) > 0 /\ stack[Len(stack)].level > level
    THEN PopStack_KeepEqual(SubSeq(stack, 1, Len(stack) - 1), level)
    ELSE stack

\* lines 332-333: while stack and stack[-1][0] >= level: stack.pop()
RECURSIVE PopStack(_, _)
PopStack(stack, level) ==
    IF Len(stack) > 0 /\ stack[Len(stack)].level >= level
    THEN PopStack(SubSeq(stack, 1, Len(stack) - 1), level)
    ELSE stack

\* lines 327-347: the line is a heading
OnHeading(p, level, title) ==
    LET q == flush_content(p)
        stack == PopStack(q.stack, level)
        parent_id == IF Len(stack) > 0 THEN stack[Len(stack)].node_id ELSE NoNode
        node_id == q.node_id + 1
    IN [q EXCEPT !.node_id = node_id,
                 !.nodes = Append(@, DocumentNode(node_id, parent_id, level, title, "")),
                 !.current_node = Len(q.nodes) + 1,
                 !.stack = Append(stack, [level |-> level, node_id |-> node_id])]

\* lines 349-362: the line is no heading; before the first heading it opens
\* the node "Document"
OnContentLine(p, line) ==
    LET q == IF p.current_node = NoNode
             THEN [p EXCEPT !.node_id = @ + 1,
                            !.nodes = Append(@, DocumentNode(p.node_id + 1, NoNode, 1,
                                                             "Document", "")),
                            !.current_node = Len(p.nodes) + 1,
                            !.stack = <<[level |-> 1, node_id |-> p.node_id + 1]>>]
             ELSE p
    IN [q EXCEPT !.content_lines = Append(@, line)]

\* lines 322-362: one pass of the for loop
OnLine(p, line) ==
    LET match == HeadingMatch(line) IN
    [(IF match.matched THEN OnHeading(p, match.level, match.title)
      ELSE OnContentLine(p, line)) EXCEPT !.i = @ + 1]

-----------------------------------------------------------------------------
(* Inputs *)

SearchCall(args) ==
    JObj(<<[k |-> "tool", v |-> JStr("search_knowledge_base")], [k |-> "args", v |-> args]>>)

Answer4 == JsonContent("", "none", JNum(4))
TextAnswer == TextContent("The answer is 4.")
CallX == JsonContent("", "none", SearchCall(JObj(<<[k |-> "query", v |-> JStr("x")]>>)))
CallY == JsonContent("", "none", SearchCall(JObj(<<[k |-> "query", v |-> JStr("y")]>>)))
CallTopK ==
    JsonContent("", "none",
                SearchCall(JObj(<<[k |-> "query", v |-> JStr("x")],
                                  [k |-> "top_k", v |-> JNum(3)]>>)))
\* the call of CallTopK with its argument keys in the other order, with
\* another value of top_k, and with another tool name
CallTopKReordered ==
    JsonContent("", "none",
                SearchCall(JObj(<<[k |-> "top_k", v |-> JNum(3)],
                                  [k |-> "query", v |-> JStr("x")]>>)))
CallTopKOther ==
    JsonContent("", "none",
                SearchCall(JObj(<<[k |-> "query", v |-> JStr("x")],
                                  [k |-> "top_k", v |-> JNum(5)]>>)))
CallOtherTool ==
    JsonContent("", "none",
                JObj(<<[k |-> "tool", v |-> JStr("match_tender")],
                       [k |-> "args", v |-> JObj(<<[k |-> "query", v |-> JStr("x")],
                                                   [k |-> "top_k", v |-> JNum(3)]>>)]>>))
CallXFenced ==
    JsonContent("Let me search.\n", "json",
                JObj(<<[k |-> "args", v |-> JObj(<<[k |-> "query", v |-> JStr("x")]>>)],
                       [k |-> "tool", v |-> JStr("search_knowledge_base")]>>))
CallUnregistered ==
    JsonContent("", "none",
                JObj(<<[k |-> "tool", v |-> JStr("match_tender")],
                       [k |-> "args", v |-> JObj(<<[k |-> "tender_id", v |-> JNum(1)]>>)]>>))
CallNoQuery == JsonContent("", "plain", SearchCall(JNull))
CallNonString ==
    JsonContent("", "none",
                JObj(<<[k |-> "tool", v |-> JNum(5)], [k |-> "args", v |-> JArr(<<JNum(1)>>)]>>))
WrongShapeArray == JsonContent("", "none", JArr(<<JNum(1)>>))
WrongShapeNoArgs ==
    JsonContent("", "none", JObj(<<[k |-> "tool", v |-> JStr("search_knowledge_base")]>>))
ProseThenJson == JsonContent("Here: ", "none", SearchCall(JObj(<<>>)))

Response(content) == [kind |-> "response", content |-> content]
ModelRaises == [kind |-> "raise", text |-> "Model request failed: 503 overloaded"]

ToolReturnsLong ==
    [kind |-> "return",
     text |-> "[1] Title: Lease contract\n    Content: The tenant pays the rent monthly...\n"]
ToolReturnsShort == [kind |-> "return", text |-> "No relevant documents found."]
ToolRaises == [kind |-> "raise", text |-> "connection to the vector store refused"]

NoAgent == [kind |-> "none"]
AgentFound == [kind |-> "found", prompt |-> "You are a contract lawyer."]
AgentNoPrompt == [kind |-> "found", prompt |-> ""]
AgentLookupRaises == [kind |-> "raise", text |-> "connection to the database failed"]

OldRows ==
    <<[message_id |-> 1, session_id |-> 1, role |-> "user", content |-> "hello"],
      [message_id |-> 2, session_id |-> 1, role |-> "assistant", content |-> "Hi, ask me."]>>

UserText == "What is 2+2?"

\* a direct caller: every max_steps up to the bound, the replies that drive
\* the loop's branches, a tool that returns or raises
CoreScenarios ==
    { [caller |-> "direct", max_steps |-> m, history |-> <<>>, agent |-> NoAgent,
       template_exists |-> TRUE, rows |-> <<>>,
       model_may |-> {Response(Answer4), ModelRaises, Response(CallX), Response(CallY),
                      Response(CallUnregistered)},
       tool_may |-> {ToolReturnsLong, ToolRaises}] : m \in 0..MaxSteps }

\* a direct caller: the shapes of reply the parser tells apart
ParserScenarios ==
    { [caller |-> "direct", max_steps |-> m, history |-> <<>>, agent |-> NoAgent,
       template_exists |-> TRUE, rows |-> <<>>,
       model_may |-> {Response(TextAnswer), Response(NoneContent), Response(WrongShapeArray),
                      Response(WrongShapeNoArgs), Response(ProseThenJson),
                      Response(DeepContent), Response(CallX), Response(CallXFenced),
                      Response(CallNoQuery), Response(CallNonString)},
       tool_may |-> {ToolReturnsShort}] : m \in {2, 4} }

\* a direct caller: the inputs of prompt assembly
PromptScenarios ==
    { [caller |-> "direct", max_steps |-> 1, history |-> h, agent |-> a,
       template_exists |-> t, rows |-> <<>>,
       model_may |-> {Response(Answer4), Response(CallX)},
       tool_may |-> {ToolReturnsShort}] :
        h \in {<<>>, FormatHistory(OldRows)},
        a \in {NoAgent, AgentFound, AgentNoPrompt, AgentLookupRaises},
        t \in BOOLEAN }

\* a direct caller: several different calls to the registered tool, then text
SequenceScenarios ==
    { [caller |-> "direct", max_steps |-> m, history |-> <<>>, agent |-> NoAgent,
       template_exists |-> TRUE, rows |-> <<>>,
       model_may |-> {Response(TextAnswer), Response(CallX), Response(CallY),
                      Response(CallTopK)},
       tool_may |-> {ToolReturnsLong, ToolRaises}] : m \in {MaxSteps} }

\* a direct caller: calls that differ in the order of the argument keys, in
\* an argument value or in the tool name only
SignatureScenarios ==
    { [caller |-> "direct", max_steps |-> 3, history |-> <<>>, agent |-> NoAgent,
       template_exists |-> TRUE, rows |-> <<>>,
       model_may |-> {Response(CallTopK), Response(CallTopKReordered),
                      Response(CallTopKOther), Response(CallOtherTool)},
       tool_may |-> {ToolReturnsShort}] }

\* a request to send_chat_message: the loop runs with its default max_steps
ChatScenarios ==
    { [caller |-> "chat", max_steps |-> DefaultMaxSteps, history |-> <<>>, agent |-> a,
       template_exists |-> TRUE, rows |-> rows,
       model_may |-> {Response(Answer4), Response(NoneContent), ModelRaises,
                      Response(CallX), Response(CallY)},
       tool_may |-> {ToolReturnsShort}] :
        a \in {NoAgent, AgentLookupRaises}, rows \in {<<>>, OldRows} }

Scenarios ==
    CoreScenarios \cup ParserScenarios \cup PromptScenarios \cup ChatScenarios
        \cup SequenceScenarios \cup SignatureScenarios

\* the sessions of the model
Sessions == {1}

-----------------------------------------------------------------------------
(* State machine *)

Init ==
    \E sc \in Scenarios :
        /\ run = [s \in Sessions |->
                    NewRun(UserText, sc.history, sc.max_steps, sc.agent,
                           sc.template_exists, sc.model_may, sc.tool_may)]
        /\ es = [s \in Sessions |->
                    IF sc.caller = "chat" THEN NewStream(UserText) ELSE DirectConsumer]
        /\ db = sc.rows
        /\ filter = NoFilterCall
        /\ parse = NoParseCall

\* the consumer of the generator has asked for its next item
ConsumerReady(s) == es[s].pc \in {"off", "pulling"}

\* HoldsEventLoop with chat() called on the event-loop thread
HoldsEventLoop_SyncChat(r) == r.pc = "in_chat"

\* an invocation keeps the event-loop thread while it waits: never, since
\* chat() and run() are handed to a worker thread (asyncio.to_thread, lines
\* 135 and 187) and the delay is asyncio.sleep (lines 165 and 205)
HoldsEventLoop(r) == r.pc \in Awaits /\ r.pc \notin {"in_chat", "in_tool", "in_sleep"}

\* Advance with last_tool_signature and repeat_count kept in one place for
\* all invocations
Advance_SharedSignature(s, r2) ==
    /\ \A t \in DOMAIN run \ {s} : ~HoldsEventLoop(run[t])
    /\ run' = [t \in DOMAIN run |->
                 IF t = s THEN r2
                 ELSE [run[t] EXCEPT !.last_tool_signature = r2.last_tool_signature,
                                     !.repeat_count = r2.repeat_count]]
    /\ es' = [es EXCEPT ![s] = Deliver(es[s], run[s], r2)]
    /\ UNCHANGED db
    /\ UNCHANGED <<filter, parse>>

\* the loop of session s moves to r2 (it runs on the event-loop thread, so no
\* other invocation holds that thread); event_stream sees what it yielded
Advance(s, r2) ==
    /\ \A t \in DOMAIN run \ {s} : ~HoldsEventLoop(run[t])
    /\ run' = [run EXCEPT ![s] = r2]
    /\ es' = [es EXCEPT ![s] = Deliver(es[s], run[s], r2)]
    /\ UNCHANGED db
    /\ UNCHANGED <<filter, parse>>

\* chat.py 224-242: read the history, store the user message, call the loop
EsStart(s) ==
    /\ es[s].pc = "new"
    /\ \E ok \in BOOLEAN :
        IF ok
        THEN /\ db' = append_message(db, s, "user", es[s].payload_content)
             /\ es' = [es EXCEPT ![s].pc = "pulling"]
             /\ run' = [run EXCEPT ![s].history =
                            FormatHistory(get_recent_history(db, s, HistoryLimit)),
                                   ![s].user_content = es[s].payload_content]
        ELSE /\ es' = [es EXCEPT ![s].pc = "raised", ![s].exception = DbErrorText]
             /\ UNCHANGED <<run, db>>
    /\ UNCHANGED <<filter, parse>>

\* agent_service.py 116-127
Start(s) ==
    /\ run[s].pc = "init" /\ ConsumerReady(s)
    /\ Advance(s, StartLoop(run[s]))

\* agent_service.py 129-135, first iteration
FirstStep(s) ==
    /\ run[s].pc = "y_thinking0" /\ ConsumerReady(s)
    /\ Advance(s, LoopTop(run[s]))

\* agent_service.py 135-176, 208-212, 217-219: the chat() call completes
ModelReturns(s) ==
    /\ run[s].pc = "in_chat"
    /\ \E outcome \in run[s].model_may : Advance(s, OnModelResult(run[s], outcome))

\* agent_service.py 179-187 (and 194-202 when no run() is started)
ToolDispatch(s) ==
    /\ run[s].pc = "y_executing" /\ ConsumerReady(s)
    /\ Advance(s, Dispatch(run[s]))

\* agent_service.py 187-202: run() completes
ToolReturns(s) ==
    /\ run[s].pc = "in_tool"
    /\ \E outcome \in run[s].tool_may :
          Advance(s, [OnToolResult(run[s], outcome) EXCEPT
                          !.tool_outcomes = Append(@, outcome)])

\* agent_service.py 165, 205: the back-off delay starts
BackoffStart(s) ==
    /\ run[s].pc \in {"y_thinking", "y_warning"} /\ ConsumerReady(s)
    /\ Advance(s, StartSleep(run[s]))

\* agent_service.py 166, 206, 129-135, 222-223: the delay ends, next iteration
BackoffEnd(s) ==
    /\ run[s].pc = "in_sleep"
    /\ Advance(s, LoopTop(run[s]))

\* agent_service.py 213
AnswerChunk(s) ==
    /\ run[s].pc = "y_done" /\ ConsumerReady(s)
    /\ Advance(s, YieldChunk(run[s]))

\* agent_service.py 154, 215, 220, 223: the generator ends
LoopReturn(s) ==
    /\ run[s].pc \in {"y_chunk", "y_error"} /\ ConsumerReady(s)
    /\ Advance(s, Return(run[s]))

\* chat.py 248-260: the response has taken the event; look for a chunk
EsResume(s) ==
    /\ es[s].pc = "at_yield"
    /\ es' = [es EXCEPT ![s] = Capture(es[s])]
    /\ UNCHANGED <<run, db>>
    /\ UNCHANGED <<filter, parse>>

\* EsFinish that yields done only when an answer was stored
EsFinish_DoneOnlyWithAnswer(s) ==
    /\ es[s].pc = "loop_ended"
    /\ LET full_answer == Join(es[s].final_content) IN
       IF Len(full_answer) > 0
       THEN /\ db' = append_message(db, s, "assistant", full_answer)
            /\ es' = [es EXCEPT ![s].pc = "y_done",
                                ![s].stream = Append(@, sse_done(Len(db) + 1))]
       ELSE /\ es' = [es EXCEPT ![s].pc = "returned"]
            /\ UNCHANGED db
    /\ UNCHANGED run
    /\ UNCHANGED <<filter, parse>>

\* EsFinish that stores the assistant message whatever the answer is, also an
\* empty one
EsFinish_StoreAlways(s) ==
    /\ es[s].pc = "loop_ended"
    /\ LET full_answer == Join(es[s].final_content) IN
       \E ok \in BOOLEAN :
            IF ok
            THEN /\ db' = append_message(db, s, "assistant", full_answer)
                 /\ es' = [es EXCEPT ![s].pc = "y_done",
                                     ![s].stream = Append(@, sse_done(Len(db) + 1))]
            ELSE /\ es' = [es EXCEPT ![s].pc = "raised", ![s].exception = DbErrorText]
                 /\ UNCHANGED db
    /\ UNCHANGED run
    /\ UNCHANGED <<filter, parse>>

\* chat.py 263-276: store the answer if there is one, yield the done event
EsFinish(s) ==
    /\ es[s].pc = "loop_ended"
    /\ LET full_answer == Join(es[s].final_content) IN
       IF Len(full_answer) > 0
       THEN \E ok \in BOOLEAN :
            IF ok
            THEN /\ db' = append_message(db, s, "assistant", full_answer)
                 /\ es' = [es EXCEPT ![s].pc = "y_done",
                                     ![s].stream = Append(@, sse_done(Len(db) + 1))]
            ELSE /\ es' = [es EXCEPT ![s].pc = "raised", ![s].exception = DbErrorText]
                 /\ UNCHANGED db
       ELSE /\ es' = [es EXCEPT ![s].pc = "y_done", ![s].stream = Append(@, sse_done(0))]
            /\ UNCHANGED db
    /\ UNCHANGED run
    /\ UNCHANGED <<filter, parse>>

\* chat.py 276: event_stream ends
EsReturn(s) ==
    /\ es[s].pc = "y_done"
    /\ es' = [es EXCEPT ![s].pc = "returned"]
    /\ UNCHANGED <<run, db>>
    /\ UNCHANGED <<filter, parse>>

Next ==
    \E s \in Sessions :
        \/ EsStart(s)
        \/ Start(s)
        \/ FirstStep(s)
        \/ ModelReturns(s)
        \/ ToolDispatch(s)
        \/ ToolReturns(s)
        \/ BackoffStart(s)
        \/ BackoffEnd(s)
        \/ AnswerChunk(s)
        \/ LoopReturn(s)
        \/ EsResume(s)
        \/ EsFinish(s)
        \/ EsReturn(s)

Spec == Init /\ [][Next]_vars

\* what the scheduling guarantees: every chat() call and every run() returns
\* or raises (ModelReturns, ToolReturns), asyncio.sleep(1) ends (BackoffEnd),
\* the consumer reads the generator to its end and the interpreter runs the
\* code between two suspension points (the other steps)
Fairness ==
    \A s \in Sessions :
        /\ WF_vars(EsStart(s))
        /\ WF_vars(Start(s))
        /\ WF_vars(FirstStep(s))
        /\ WF_vars(ModelReturns(s))
        /\ WF_vars(ToolDispatch(s))
        /\ WF_vars(ToolReturns(s))
        /\ WF_vars(BackoffStart(s))
        /\ WF_vars(BackoffEnd(s))
        /\ WF_vars(AnswerChunk(s))
        /\ WF_vars(LoopReturn(s))
        /\ WF_vars(EsResume(s))
        /\ WF_vars(EsFinish(s))
        /\ WF_vars(EsReturn(s))

\* the program when every call returns and the consumer keeps reading
SpecLive == Init /\ [][Next]_vars /\ Fairness

\* two direct callers at once: the replies that make one invocation's call
\* look like a repeat of the other's
PairScenarios ==
    { [caller |-> "direct", max_steps |-> MaxPairSteps, history |-> <<>>, agent |-> NoAgent,
       template_exists |-> TRUE, rows |-> <<>>,
       model_may |-> {Response(Answer4), Response(CallX), Response(CallY), ModelRaises},
       tool_may |-> {ToolReturnsShort, ToolRaises}] }

\* two invocations that run concurrently on one event loop
Pair == {1, 2}

InitPair ==
    \E sc \in [Pair -> PairScenarios] :
        /\ run = [s \in Pair |->
                    NewRun(UserText, sc[s].history, sc[s].max_steps, sc[s].agent,
                           sc[s].template_exists, sc[s].model_may, sc[s].tool_may)]
        /\ es = [s \in Pair |-> DirectConsumer]
        /\ db = <<>>
        /\ filter = NoFilterCall
        /\ parse = NoParseCall

NextPair ==
    \E s \in Pair :
        \/ Start(s)
        \/ FirstStep(s)
        \/ ModelReturns(s)
        \/ ToolDispatch(s)
        \/ ToolReturns(s)
        \/ BackoffStart(s)
        \/ BackoffEnd(s)
        \/ AnswerChunk(s)
        \/ LoopReturn(s)

SpecPair == InitPair /\ [][NextPair]_vars

\* the constraints a caller of _build_filter_sql passes: every key absent,
\* None, or set to a value of the type the filter expects (and for the list
\* and the minimum amount also an empty list, zero and a text)
ConstraintSets ==
    [project_types : {Unset, JNull, JArr(<<>>), JArr(<<JStr("litigation")>>),
                      JArr(<<JStr("litigation"), JStr("counsel")>>)},
     min_amount : {Unset, JNull, JNum(0), JNum(50), JStr("12.5"), JStr("n/a")},
     max_amount : {Unset, JNull, JNum(100)},
     min_subject_amount : {Unset, JNum(100)},
     max_subject_amount : {Unset, JNum(1000)},
     date_after : {Unset, JNull, JStr("2022-01-01")},
     date_before : {Unset, JStr("2024-12-31")},
     require_state_owned : {Unset, JBool(TRUE), JBool(FALSE)}]

InitFilter ==
    /\ run = <<>> /\ es = <<>> /\ db = <<>>
    /\ parse = NoParseCall
    /\ \E c \in ConstraintSets : filter = [pc |-> "called", constraints |-> c]

\* matching_service.py 74-135: the call returns
BuildFilterSql ==
    /\ filter.pc = "called"
    /\ filter' = [pc |-> "returned", constraints |-> filter.constraints,
                  result |-> build_filter_sql(filter.constraints)]
    /\ UNCHANGED <<run, es, db, parse>>

NextFilter == BuildFilterSql

\* calls of _build_filter_sql
SpecFilter == InitFilter /\ [][NextFilter]_vars

\* the lines a Markdown text of the model is made of: headings of three
\* levels (one of them indented), a content line with white space before it,
\* an empty line, and a line that starts with "#" but is no heading
LineTexts == {"# A", " ## B ", "### C", " x", "", "#x"}

\* the texts given to parse_markdown_nodes: up to MaxLines lines joined by
\* "\n" (a last empty line makes a text that ends in "\n")
Markdowns ==
    { JoinLines(ls) : ls \in UNION { [1..n -> LineTexts] : n \in 0..MaxLines } }

InitMarkdown ==
    /\ run = <<>> /\ es = <<>> /\ db = <<>>
    /\ filter = NoFilterCall
    /\ \E markdown \in Markdowns : parse = NewParse(markdown)

\* document_service.py 304-322: the locals are set, the text is split
ParseBegin ==
    /\ parse.pc = "called"
    /\ parse' = [parse EXCEPT !.pc = "loop", !.lines = SplitLines(parse.markdown), !.i = 1]
    /\ UNCHANGED <<run, es, db, filter>>

\* document_service.py 322-362: the next line
ParseLine ==
    /\ parse.pc = "loop" /\ parse.i <= Len(parse.lines)
    /\ parse' = OnLine(parse, parse.lines[parse.i])
    /\ UNCHANGED <<run, es, db, filter>>

\* document_service.py 364-365: the last flush, return nodes
ParseReturn ==
    /\ parse.pc = "loop" /\ parse.i > Len(parse.lines)
    /\ parse' = [flush_content(parse) EXCEPT !.pc = "returned"]
    /\ UNCHANGED <<run, es, db, filter>>

NextMarkdown == ParseBegin \/ ParseLine \/ ParseReturn

\* calls of parse_markdown_nodes
SpecMarkdown == InitMarkdown /\ [][NextMarkdown]_vars

\* the consumer's task is cancelled while the loop waits at an await
Cancel(s) ==
    /\ run[s].pc \in Awaits
    /\ run' = [run EXCEPT ![s] = OnCancel(run[s])]
    /\ es' = [es EXCEPT ![s] = EsCancelled(es[s])]
    /\ UNCHANGED db
    /\ UNCHANGED <<filter, parse>>

\* the consumer goes away while the loop is suspended at a yield: a direct
\* consumer closes the generator, the response of send_chat_message is
\* cancelled while it holds the event
Close(s) ==
    /\ run[s].pc \in Yields /\ es[s].pc \in {"off", "at_yield"}
    /\ run' = [run EXCEPT ![s] = OnClose(run[s])]
    /\ es' = [es EXCEPT ![s] = EsCancelled(es[s])]
    /\ UNCHANGED db
    /\ UNCHANGED <<filter, parse>>

NextCancel ==
    \/ Next
    \/ \E s \in Sessions : Cancel(s)
    \/ \E s \in Sessions : Close(s)

\* the program with consumers that may disconnect
SpecCancel == Init /\ [][NextCancel]_vars

-----------------------------------------------------------------------------
(* Vocabulary of the properties *)

Last(q) == q[Len(q)]
Count(q, P(_)) == Cardinality({i \in 1..Len(q) : P(q[i])})

IsChunk(e) == e.event = "chunk"
IsError(e) == e.event = "error"
IsDone(e) == e.event = "done"
IsStatus(e, state) == e.event = "status" /\ e.data.state = state
\* the terminal events of run_agent_loop: the answer or an error
IsLoopTerminal(e) == IsChunk(e) \/ IsError(e)
\* the terminal events of the stream of send_chat_message
IsStreamTerminal(e) == IsDone(e) \/ IsError(e)

\* the reply of a model call is a tool call, as the parser sees it
IsCall(outcome) ==
    outcome.kind = "response" /\ ParseToolCall(outcome.content).kind = "call"
SignatureOf(outcome) ==
    LET data == ParseToolCall(outcome.content).data
    IN ToolSignature(ToolName(data), ToolArgs(data))
\* replies i and j of the log carry the identical (tool, args) call (the
\* same text carries the same call)
SameCall(log, i, j) ==
    /\ IsCall(log[i]) /\ IsCall(log[j])
    /\ log[i].content = log[j].content \/ SignatureOf(log[i]) = SignatureOf(log[j])
\* the last n replies of the log are n identical calls
LastIdentical(log, n) ==
    Len(log) >= n /\ \A i \in (Len(log) - n + 1)..Len(log) : SameCall(log, i, Len(log))
\* reply i repeats the call of reply i - 1
IsRepeat(log, i) == i > 1 /\ SameCall(log, i - 1, i)

IsDispatch(t) == t.what \in {"not_found", "construct_raised", "run_started"}
IsToolFault(t) == t.what \in {"construct_raised", "run_raised"}

Ended(r) == r.pc = "returned"

-----------------------------------------------------------------------------
C2_Original ==
    \A s \in Sessions :
        LET q == es[s].stream IN
        /\ ~(Count(q, IsError) > 0 /\ Count(q, IsDone) > 0)
        /\ \A i \in 1..Len(q) : IsStreamTerminal(q[i]) => i = Len(q)
        /\ es[s].pc = "returned" => Count(q, IsStreamTerminal) = 1

\* C2 amended: the stream holds at most one error and at most one done event;
\* done is always its last event and a completed stream ends with it; when
\* the loop ended with an Error the stream holds both, the error event right
\* before done, and done carries message_id 0; a stream cut short by an
\* exception of the persistence or of the prompt loader holds no done event
C2_Amended ==
    \A s \in Sessions :
        LET q == es[s].stream IN
        /\ Count(q, IsError) <= 1 /\ Count(q, IsDone) <= 1
        /\ \A i \in 1..Len(q) : IsDone(q[i]) => i = Len(q)
        /\ es[s].pc \in {"y_done", "returned"} <=> (Len(q) > 0 /\ IsDone(Last(q)))
        /\ \A i \in 1..Len(q) :
              IsError(q[i]) /\ es[s].pc = "returned"
                 => i = Len(q) - 1 /\ Last(q) = sse_done(0)
        /\ es[s].pc = "raised" => Count(q, IsDone) = 0

\* C2 witness: a completed stream that holds an error event and then done
C2_Witness ==
    \E s \in Sessions :
        /\ es[s].pc = "returned" /\ Len(es[s].stream) >= 2
        /\ IsError(es[s].stream[Len(es[s].stream) - 1]) /\ IsDone(Last(es[s].stream))

-----------------------------------------------------------------------------
\* C3 as claimed: once the model has returned the identical call on three
\* consecutive steps the loop has ended with the repeated-call Error (so no
\* fourth model call follows)
C3_Original ==
    \A s \in Sessions :
        LET r == run[s] IN
        LastIdentical(r.model_log, 3)
            => /\ r.pc \in {"y_error", "returned"}
               /\ Last(r.events) = sse_error(MsgRepeatLimit)

\* C3 amended: with repeat_limit = 2 the breaker fires on the fourth
\* consecutive identical call (the third repeat, repeat_count = 3 > 2): the
\* third identical call only draws the second warning Status, the loop goes on,
\* and when the fourth model call returns the same call again the loop ends
\* with the repeated-call Error; the Error is yielded in no other case and no
\* fifth identical call is ever received
C3_Amended ==
    \A s \in Sessions :
        LET r == run[s] IN
        /\ LastIdentical(r.model_log, 4)
              => /\ r.pc \in {"y_error", "returned"}
                 /\ Last(r.events) = sse_error(MsgRepeatLimit)
                 /\ r.repeat_count = repeat_limit + 1
        /\ LastIdentical(r.model_log, 3) /\ ~LastIdentical(r.model_log, 4)
           /\ r.current_step = Len(r.model_log)
              => /\ r.repeat_count = repeat_limit
                 /\ \E i \in 1..Len(r.events) :
                       /\ r.events[i] = sse_status("ERROR", r.current_step, r.max_steps,
                                                   MsgRepeatDetected)
                       /\ \A j \in (i + 1)..Len(r.events) : r.events[j] = sse_error(MsgStepLimit)
        /\ (\E i \in 1..Len(r.events) : r.events[i] = sse_error(MsgRepeatLimit))
              => LastIdentical(r.model_log, 4)
        /\ ~LastIdentical(r.model_log, 5)

\* C3 witness: four identical calls were received and the loop ended with the
\* repeated-call Error
C3_Witness ==
    \E s \in Sessions :
        /\ Ended(run[s]) /\ Len(run[s].model_log) = 4 /\ LastIdentical(run[s].model_log, 4)
        /\ Last(run[s].events) = sse_error(MsgRepeatLimit)

\* C4: of consecutive model replies that carry the identical call only the
\* first one is dispatched: a reply that repeats the call of the reply before
\* it never looks up, constructs or runs a tool (whether it draws the warning
\* or the Error), and a reply that does not is dispatched exactly once, with
\* its own name and arguments, and runs a registered tool whose arguments
\* construct exactly once
C4_ExecutedOnceOnFirstOccurrence ==
    \A s \in Sessions :
        LET r == run[s]
            At(i) == {j \in 1..Len(r.tool_log) : r.tool_log[j].step = i}
            DispatchesAt(i) == {j \in At(i) : IsDispatch(r.tool_log[j])}
            RunsAt(i) == {j \in At(i) : r.tool_log[j].what = "run_started"}
            Dispatched(i) == i < r.current_step \/ r.pc \notin {"in_chat", "y_executing"}
        IN \A i \in 1..Len(r.model_log) :
              IsCall(r.model_log[i]) =>
                 LET data == ParseToolCall(r.model_log[i].content).data
                     repeat == IsRepeat(r.model_log, i)
                 IN
                 /\ repeat => At(i) = {}
                 /\ Dispatched(i) /\ ~repeat
                       => /\ Cardinality(DispatchesAt(i)) = 1
                          /\ \A j \in DispatchesAt(i) :
                                r.tool_log[j].signature = SignatureOf(r.model_log[i])
                          /\ Cardinality(RunsAt(i)) =
                                IF GetTool(ToolName(data))
                                   /\ ConstructOk(ToolName(data), ToolArgs(data))
                                THEN 1 ELSE 0

\* C4 witness: the same call came three times in a row, the first ran the
\* tool, the third drew a warning, and the tool ran once
C4_Witness ==
    \E s \in Sessions :
        LET r == run[s] IN
        /\ Len(r.model_log) = 3 /\ LastIdentical(r.model_log, 3) /\ r.pc = "y_warning"
        /\ Count(r.tool_log, LAMBDA t : t.what = "run_started") = 1
        /\ r.tool_log[1].step = 1

\* C5: when every reply of the model is the same tool call and max_steps is
\* at least 4, the invocation ends after four model calls: the stream holds
\* exactly two warning Status events, each with its corrective message in the
\* messages, directly followed by the repeated-call Error as its last event,
\* and the call was dispatched once in total, on the first step
C5_TwoWarningsThenError ==
    \A s \in Sessions :
        LET r == run[s]
            n == Len(r.events)
            IsWarning(e) == IsStatus(e, "ERROR") /\ e.data.message = MsgRepeatDetected
            IsCorrective(m) ==
                m = Message("user", RepeatMessage(
                        ToolName(ParseToolCall(r.model_log[1].content).data)))
        IN Ended(r) /\ r.max_steps >= 4 /\ Len(r.model_log) > 0
           /\ (\A i \in 1..Len(r.model_log) : SameCall(r.model_log, 1, i))
              => /\ Len(r.model_log) = 4
                 /\ Count(r.events, IsWarning) = 2
                 /\ IsWarning(r.events[n - 2]) /\ IsWarning(r.events[n - 1])
                 /\ r.events[n] = sse_error(MsgRepeatLimit)
                 /\ Count(r.events, IsError) = 1 /\ Count(r.events, IsChunk) = 0
                 /\ Count(r.messages, IsCorrective) = 2
                 /\ \A k \in 1..Len(r.messages) :
                       IsCorrective(r.messages[k]) =>
                          \E i \in 2..3 :
                             r.messages[k - 1] =
                                Message("assistant", RawText(r.model_log[i].content))
                 /\ Count(r.tool_log, IsDispatch) = 1
                 /\ r.tool_log[1].step = 1
                 /\ Count(r.tool_log, LAMBDA t : t.what = "run_started") =
                       IF GetTool(r.tool_log[1].tool)
                          /\ r.tool_log[1].what # "construct_raised"
                       THEN 1 ELSE 0

\* C5 witness: the same call to the registered tool on all four steps; the
\* tool ran once and the stream ended with two warnings and the Error
C5_Witness ==
    \E s \in Sessions :
        LET r == run[s] IN
        /\ Ended(r) /\ Len(r.model_log) = 4 /\ LastIdentical(r.model_log, 4)
        /\ Count(r.tool_log, LAMBDA t : t.what = "run_started") = 1
        /\ Count(r.events, LAMBDA e : IsStatus(e, "ERROR")) = 2

-----------------------------------------------------------------------------
\* C6: when the model has returned a tool call that repeats no call on each
\* of max_steps steps, no further model call is started, the invocation ends
\* with the step-limit Error as its only terminal event, and that Error is
\* the last event
C6_StepLimitError ==
    \A s \in Sessions :
        LET r == run[s] IN
        /\ Len(r.model_log) = r.max_steps => r.pc # "in_chat"
        /\ Len(r.model_log) = r.max_steps
           /\ (\A i \in 1..Len(r.model_log) :
                  IsCall(r.model_log[i]) /\ ~IsRepeat(r.model_log, i))
              => /\ r.pc \in {"y_error", "returned"}
                    => /\ Last(r.events) = sse_error(MsgStepLimit)
                       /\ Count(r.events, IsLoopTerminal) = 1
                 /\ r.pc \notin {"y_error", "returned"}
                    => Count(r.events, IsLoopTerminal) = 0

\* C6 witness: an invocation with max_steps >= 3 ended by the step-limit Error
\* after max_steps calls none of which repeats the one before it
C6_Witness ==
    \E s \in Sessions :
        LET r == run[s] IN
        /\ Ended(r) /\ r.max_steps >= 3 /\ Len(r.model_log) = r.max_steps
        /\ \A i \in 1..Len(r.model_log) : IsCall(r.model_log[i]) /\ ~IsRepeat(r.model_log, i)
        /\ Last(r.events) = sse_error(MsgStepLimit)

\* C7: the step counter never exceeds max_steps; every model call is made in
\* a step of its own, so at most max_steps calls are made, and none when
\* max_steps is 0
C7_StepWithinBudget ==
    \A s \in Sessions :
        LET r == run[s]
            calls == Len(r.model_log) + (IF r.pc = "in_chat" THEN 1 ELSE 0)
        IN /\ r.current_step <= r.max_steps
           /\ calls = r.current_step
           /\ calls <= r.max_steps
           /\ r.max_steps = 0 => calls = 0

\* C7 witness: the model is being called in the last permitted step
C7_Witness ==
    \E s \in Sessions :
        run[s].pc = "in_chat" /\ run[s].current_step = run[s].max_steps
        /\ run[s].max_steps >= 3

\* C8 as claimed: when the reply of a step does not parse as a tool call, the
\* loop yields Status(DONE) and then a Chunk with the raw reply, dispatches no
\* tool in that step, calls the model no more and yields no Error
C8_Original ==
    \A s \in Sessions :
        LET r == run[s]
            n == Len(r.events)
            k == Len(r.model_log)
        IN k > 0 /\ r.model_log[k].kind = "response" /\ ~IsCall(r.model_log[k])
              => /\ Count(r.events, IsError) = 0
                 /\ r.pc \in {"y_done", "y_chunk", "returned"}
                 /\ r.pc = "y_done" => IsStatus(r.events[n], "DONE")
                 /\ r.pc \in {"y_chunk", "returned"}
                       => /\ IsStatus(r.events[n - 1], "DONE")
                          /\ r.events[n] = sse_chunk(RawText(r.model_log[k].content))
                 /\ \A j \in 1..Len(r.tool_log) : r.tool_log[j].step < k

\* C9: when a model call raises, it is the last model call; the invocation
\* yields the Error built from the exception as its only terminal event and
\* last event, dispatches no tool in or after that step, and the generator
\* returns without raising
C9_ModelFaultIsTerminalError ==
    \A s \in Sessions :
        LET r == run[s] IN
        \A i \in 1..Len(r.model_log) :
            r.model_log[i].kind = "raise"
               => /\ i = Len(r.model_log) /\ r.current_step = i
                  /\ r.pc \in {"y_error", "returned"}
                  /\ Last(r.events) = sse_error(MsgAgentFailed(r.model_log[i].text))
                  /\ Count(r.events, IsLoopTerminal) = 1
                  /\ \A j \in 1..Len(r.tool_log) : r.tool_log[j].step < i
                  /\ r.exception = ""

\* C9 witness: the model call of a later step raised after a tool had run
C9_Witness ==
    \E s \in Sessions :
        LET r == run[s] IN
        /\ Ended(r) /\ Len(r.model_log) >= 2 /\ Last(r.model_log).kind = "raise"
        /\ Len(r.tool_log) > 0

\* the last entry of the tool log is a constructor or a run() that raised
LastToolFault(r) == Len(r.tool_log) > 0 /\ IsToolFault(Last(r.tool_log))

\* C10: when the constructor or run() of a resolved tool raises, the step
\* ends like any other tool step: the call and the observation "Error
\* execution tool: <failure text>" are appended, the next event is
\* Status(THINKING) for the next step carrying the first 50 characters of that
\* text, no Error event is yielded, nothing leaves the generator, and after
\* the back-off the model is called again whenever current_step < max_steps
C10_Inv ==
    \A s \in Sessions :
        LET r == run[s] IN
        LastToolFault(r) /\ Last(r.tool_log).step = r.current_step
        /\ r.pc \notin {"in_chat", "y_executing"}
           => /\ r.pc \in {"y_thinking", "in_sleep", "y_error", "returned"}
              /\ r.exception = ""
              /\ r.pc \in {"y_thinking", "in_sleep"} =>
                    /\ Count(r.events, IsError) = 0
                    /\ \E text \in {ConstructErrorText} \cup {o.text : o \in r.tool_may} :
                          LET result == "Error execution tool: " \o text IN
                          /\ Last(r.messages) =
                                Message("user", "Tool '" \o r.tool_name \o "' Result: " \o result)
                          /\ r.messages[Len(r.messages) - 1] =
                                Message("assistant", RawText(Last(r.model_log).content))
                          /\ Last(r.events) =
                                sse_status("THINKING", r.current_step + 1, r.max_steps,
                                           MsgToolReturned(ReplaceNewlines(Take(result, PreviewLen))))
                          /\ IsStatus(r.events[Len(r.events) - 1], "EXECUTING")
              /\ r.pc \in {"y_error", "returned"} =>
                    /\ r.current_step = r.max_steps
                    /\ Last(r.events) = sse_error(MsgStepLimit)
C10_ToolFaultFoldedBack ==
    /\ []C10_Inv
    /\ [][\A s \in Sessions :
            /\ LastToolFault(run[s]) /\ run[s].pc = "in_sleep"
            /\ run[s].current_step < run[s].max_steps /\ run'[s] # run[s]
            => run'[s].pc = "in_chat" /\ run'[s].messages = run[s].messages]_vars

\* C10 witness: run() raised in one step and the model is called again in
\* the next
C10_Witness ==
    \E s \in Sessions :
        LET r == run[s] IN
        /\ r.pc = "in_chat" /\ LastToolFault(r)
        /\ Last(r.tool_log).what = "run_raised"
        /\ Last(r.tool_log).step = r.current_step - 1

-----------------------------------------------------------------------------
\* the text of the observation for a tool name that resolves to no tool
NotFoundText(tool_name) ==
    "Error: Tool '" \o (IF Len(tool_name) > 0 THEN tool_name ELSE "UNKNOWN") \o "' not found."

\* C11: a call that is dispatched with a name that is not registered (an
\* empty name stands for a tool value that is no string) executes no tool,
\* raises nothing and yields no Error of its own: the call and the observation
\* "Error: Tool '<name or UNKNOWN>' not found." are appended to the messages,
\* the event after Status(EXECUTING) is Status(THINKING) for the next step, and
\* the loop ends after such a step only by the step limit
C11_UnknownToolFoldedBack ==
    \A s \in Sessions :
        LET r == run[s]
            n == Len(r.events)
        IN /\ r.exception = "" \/ r.model_log = <<>>
           /\ \A j \in 1..Len(r.tool_log) :
                 LET t == r.tool_log[j] IN
                 /\ t.what = "not_found" <=> ~GetTool(t.tool)
                 /\ ~GetTool(t.tool) =>
                       /\ Count(r.tool_log, LAMBDA u : u.step = t.step) = 1
                       /\ \E k \in 2..n :
                             /\ r.events[k - 1] =
                                   sse_status("EXECUTING", t.step, r.max_steps,
                                              MsgCallingTool(t.tool))
                             /\ r.events[k] =
                                   sse_status("THINKING", t.step + 1, r.max_steps,
                                              MsgToolReturned(ReplaceNewlines(
                                                  Take(NotFoundText(t.tool), PreviewLen))))
                       /\ \E k \in 2..Len(r.messages) :
                             /\ r.messages[k - 1] =
                                   Message("assistant", RawText(r.model_log[t.step].content))
                             /\ r.messages[k] =
                                   Message("user", "Tool '" \o t.tool \o "' Result: "
                                                       \o NotFoundText(t.tool))
                       /\ t.step = r.current_step =>
                             /\ r.pc \in {"y_thinking", "in_sleep", "y_error", "returned"}
                             /\ r.pc \in {"y_error", "returned"} =>
                                   /\ r.current_step = r.max_steps
                                   /\ Last(r.events) = sse_error(MsgStepLimit)

\* C11 witness: a call whose tool value is no string was folded back as "not
\* found" and the model is being called again in the next step
C11_Witness ==
    \E s \in Sessions :
        LET r == run[s] IN
        /\ r.pc = "in_chat" /\ Len(r.tool_log) > 0
        /\ Last(r.tool_log) = [step |-> r.current_step - 1, tool |-> "",
                               signature |-> r.last_tool_signature, what |-> "not_found"]
        /\ Last(r.messages).content = "Tool '' Result: Error: Tool 'UNKNOWN' not found."

-----------------------------------------------------------------------------
\* the reply of the current step: the last reply of the log, once chat() of
\* this step has returned a response that json.loads decodes to a value
DecodedReply(r) ==
    /\ Len(r.model_log) > 0 /\ Len(r.model_log) = r.current_step /\ r.pc # "in_chat"
    /\ Last(r.model_log).kind = "response"
    /\ Loads(Last(r.model_log).content).kind = "value"
DecodedValue(r) == Loads(Last(r.model_log).content).v

\* a mapping whose tool value is a string and whose args value is a mapping
WellTypedCall(v) ==
    /\ v.t = "obj" /\ HasKey(v, "tool") /\ HasKey(v, "args")
    /\ Get(v, "tool").t = "str" /\ Get(v, "args").t = "obj"
\* a mapping that has the keys tool and args
HasCallKeys(v) == v.t = "obj" /\ HasKey(v, "tool") /\ HasKey(v, "args")

\* the step ended as a final answer: Status(DONE), then the Chunk with the raw
\* reply, no Status(EXECUTING) and no tool dispatch in this step
TreatedAsFinalAnswer(r) ==
    LET n == Len(r.events)
        k == Len(r.model_log)
    IN /\ r.pc \in {"y_done", "y_chunk", "returned"}
       /\ r.pc = "y_done" => r.events[n] = sse_status("DONE", k, r.max_steps, MsgDone)
       /\ r.pc \in {"y_chunk", "returned"}
             => /\ r.events[n - 1] = sse_status("DONE", k, r.max_steps, MsgDone)
                /\ r.events[n] = sse_chunk(RawText(r.model_log[k].content))
       /\ \A i \in 1..n : ~(IsStatus(r.events[i], "EXECUTING") /\ r.events[i].data.step = k)
       /\ \A j \in 1..Len(r.tool_log) : r.tool_log[j].step < k

-----------------------------------------------------------------------------
\* the loop has gone on after event i, which it yielded in step k: a later
\* model call, a later tool dispatch, or a later Status(THINKING / EXECUTING)
WentOnAfter(r, i) ==
    LET k == r.events[i].data.step IN
    \/ r.current_step > k
    \/ \E j \in 1..Len(r.tool_log) : r.tool_log[j].step > k
    \/ \E j \in (i + 1)..Len(r.events) :
          IsStatus(r.events[j], "THINKING") \/ IsStatus(r.events[j], "EXECUTING")

\* C13 as claimed: after a Status event with state DONE or state ERROR the
\* loop calls the model no more, dispatches no tool and yields no
\* Status(THINKING) or Status(EXECUTING)
C13_Original ==
    \A s \in Sessions :
        LET r == run[s] IN
        \A i \in 1..Len(r.events) :
            IsStatus(r.events[i], "DONE") \/ IsStatus(r.events[i], "ERROR")
                => ~WentOnAfter(r, i)

\* C13 amended: Status(DONE) is terminal: after it the loop only yields the
\* answer Chunk and returns.  The terminal error is the error event, not a
\* Status: after an error event the loop yields nothing and only returns.  A
\* Status with state ERROR is the warning for a repeated call and is not
\* terminal: it is yielded only for a reply that repeats the call before it,
\* and after it the loop backs off and goes to its next iteration (the next
\* model call, while current_step < max_steps)
C13_Amended ==
    \A s \in Sessions :
        LET r == run[s]
            n == Len(r.events)
        IN \A i \in 1..n :
              LET e == r.events[i] IN
              /\ IsStatus(e, "DONE")
                    => /\ ~WentOnAfter(r, i)
                       /\ r.pc \in {"y_done", "y_chunk", "returned"}
                       /\ i >= n - 1
                       /\ i = n - 1 => IsChunk(r.events[n])
              /\ IsError(e)
                    => i = n /\ r.pc \in {"y_error", "returned"}
              /\ IsStatus(e, "ERROR")
                    => /\ e = sse_status("ERROR", e.data.step, r.max_steps, MsgRepeatDetected)
                       /\ IsRepeat(r.model_log, e.data.step)
                       /\ i = n => /\ r.pc \in {"y_warning", "in_sleep", "in_chat"}
                                   /\ r.pc = "in_chat" => r.current_step = e.data.step + 1
                                   /\ r.pc # "in_chat" => r.current_step = e.data.step

\* C13 witness: after a Status with state ERROR the model was called again,
\* changed its call, the tool ran, and the invocation ended with Status(DONE)
\* and the answer
C13_Witness ==
    \E s \in Sessions :
        LET r == run[s] IN
        /\ Ended(r) /\ Len(r.events) >= 2
        /\ IsStatus(r.events[Len(r.events) - 1], "DONE") /\ IsChunk(Last(r.events))
        /\ \E i \in 1..Len(r.events) :
              /\ IsStatus(r.events[i], "ERROR")
              /\ \E j \in (i + 1)..Len(r.events) : IsStatus(r.events[j], "EXECUTING")
              /\ \E j \in 1..Len(r.tool_log) :
                    /\ r.tool_log[j].step > r.events[i].data.step
                    /\ r.tool_log[j].what = "run_returned"

-----------------------------------------------------------------------------
\* C14: when the consumer disconnects while an invocation is in progress
\* (its task is cancelled while the loop waits for the model, a tool or the
\* back-off, or the generator is closed at a yield), the loop stops there:
\* from then on it makes no model call, dispatches no tool, yields no event
\* and appends no message; a cancellation at an await leaves the generator
\* as CancelledError and is not turned into an Error event or another step
C14_CancelStopsLoop ==
    \A s \in Sessions :
        LET r == run[s]
            c == r.cancelled_at
        IN /\ r.pc \in {"cancelled", "closed"} <=> c # NoCancel
           /\ c # NoCancel =>
                 /\ Len(r.events) = c.events /\ Len(r.model_log) = c.calls
                 /\ Len(r.tool_log) = c.tools /\ Len(r.messages) = c.messages
                 /\ r.current_step = c.step
                 /\ c.pc \in Awaits => r.pc = "cancelled" /\ r.exception = "CancelledError"
                 /\ c.pc \in Yields => r.pc = "closed" /\ r.exception = ""
                 /\ es[s].pc \in {"off", "cancelled"}
                 /\ es[s].pc = "cancelled" => Len(es[s].stream) = c.events

\* C14 witness: the task was cancelled during the back-off after a tool had
\* run, with steps left in the budget
C14_Witness ==
    \E s \in Sessions :
        LET r == run[s] IN
        /\ r.pc = "cancelled" /\ r.cancelled_at.pc = "in_sleep"
        /\ r.current_step < r.max_steps
        /\ Len(r.tool_log) > 0 /\ Last(r.tool_log).what = "run_returned"

-----------------------------------------------------------------------------
\* an invocation run alone, from its start, on the given model replies and
\* tool outcomes, up to the point where it waits for the next one
RECURSIVE Replay(_, _, _)
Replay(r, replies, outcomes) ==
    CASE r.pc = "init" -> Replay(StartLoop(r), replies, outcomes)
      [] r.pc \in {"y_thinking0", "in_sleep"} -> Replay(LoopTop(r), replies, outcomes)
      [] r.pc = "in_chat" ->
            IF replies = <<>> THEN r
            ELSE Replay(OnModelResult(r, Head(replies)), Tail(replies), outcomes)
      [] r.pc = "y_executing" -> Replay(Dispatch(r), replies, outcomes)
      [] r.pc = "in_tool" ->
            IF outcomes = <<>> THEN r
            ELSE Replay(OnToolResult(r, Head(outcomes)), replies, Tail(outcomes))
      [] r.pc \in {"y_thinking", "y_warning"} -> Replay(StartSleep(r), replies, outcomes)
      [] r.pc = "y_done" -> Replay(YieldChunk(r), replies, outcomes)
      [] r.pc \in {"y_chunk", "y_error"} -> Replay(Return(r), replies, outcomes)
      [] OTHER -> r

Alone(r) ==
    Replay(NewRun(r.user_content, r.history, r.max_steps, r.agent, r.template_exists,
                  r.model_may, r.tool_may),
           r.model_log, r.tool_outcomes)

IsPrefix(p, q) == Len(p) <= Len(q) /\ SubSeq(q, 1, Len(p)) = p

\* C15: under every interleaving of two concurrent invocations, each has
\* yielded what it yields when it runs alone on the same model replies and
\* tool outcomes: its events and messages are a prefix of the lone run's, and
\* the same once it has ended, with the same step counter, stored signature
\* and repeat count
C15_NoSharedLoopState ==
    \A s \in DOMAIN run :
        LET r == run[s]
            a == Alone(r)
        IN /\ IsPrefix(r.events, a.events)
           /\ IsPrefix(r.messages, a.messages)
           /\ r.pc \in {"in_chat", "in_tool", "returned"} =>
                 /\ r.events = a.events /\ r.messages = a.messages
                 /\ r.current_step = a.current_step
                 /\ r.last_tool_signature = a.last_tool_signature
                 /\ r.repeat_count = a.repeat_count

\* C15 witness: both invocations received the same call as their first
\* reply, one after the other, and each ran the tool for it
C15_Witness ==
    /\ DOMAIN run = Pair
    /\ \A s \in Pair :
          /\ Len(run[s].model_log) >= 1 /\ IsCall(run[s].model_log[1])
          /\ Len(run[s].tool_outcomes) >= 1
          /\ run[s].events[2] = sse_status("EXECUTING", 1, run[s].max_steps,
                                            MsgCallingTool("search_knowledge_base"))
    /\ SignatureOf(run[1].model_log[1]) = SignatureOf(run[2].model_log[1])
    /\ run[1].pc = "in_sleep" /\ run[2].pc = "in_sleep"

-----------------------------------------------------------------------------
\* some step of the loop of invocation s
LoopStep(s) ==
    \/ Start(s) \/ FirstStep(s) \/ ModelReturns(s) \/ ToolDispatch(s) \/ ToolReturns(s)
    \/ BackoffStart(s) \/ BackoffEnd(s) \/ AnswerChunk(s) \/ LoopReturn(s)

-----------------------------------------------------------------------------
\* reply i is a valid call to a registered tool
IsValidCall(outcome) ==
    /\ IsCall(outcome)
    /\ LET data == ParseToolCall(outcome.content).data IN
       /\ WellTypedCall(data) /\ GetTool(ToolName(data))
       /\ ConstructOk(ToolName(data), ToolArgs(data))

\* the replies so far are k pairwise-distinct valid calls, then (if there is
\* one more) a reply that is no call
DistinctCallsThenText(r, k) ==
    /\ k <= Len(r.model_log) /\ Len(r.model_log) <= k + 1 /\ k < r.max_steps
    /\ \A i \in 1..k : IsValidCall(r.model_log[i])
    /\ \A i \in 1..k : \A j \in 1..k :
          i # j => SignatureOf(r.model_log[i]) # SignatureOf(r.model_log[j])
    /\ Len(r.model_log) = k + 1 =>
          /\ r.model_log[k + 1].kind = "response"
          /\ ParseToolCall(r.model_log[k + 1].content).kind = "none"

\* what run() number i gave, as the loop folds it
ResultText(r, i) ==
    IF r.tool_outcomes[i].kind = "raise"
    THEN "Error execution tool: " \o r.tool_outcomes[i].text
    ELSE r.tool_outcomes[i].text

\* the events and the messages of i completed tool steps
RECURSIVE StepEvents(_, _)
StepEvents(r, i) ==
    IF i = 0 THEN <<sse_status("THINKING", 1, r.max_steps, MsgThinking)>>
    ELSE StepEvents(r, i - 1) \o
         <<sse_status("EXECUTING", i, r.max_steps,
                      MsgCallingTool(ToolName(ParseToolCall(r.model_log[i].content).data))),
           sse_status("THINKING", i + 1, r.max_steps,
                      MsgToolReturned(ReplaceNewlines(Take(ResultText(r, i), PreviewLen))))>>
RECURSIVE StepMessages(_, _)
StepMessages(r, i) ==
    IF i = 0
    THEN <<Message("system", load_system_prompt(r.agent, r.template_exists).text)>>
         \o r.history \o <<Message("user", r.user_content)>>
    ELSE StepMessages(r, i - 1) \o
         <<Message("assistant", RawText(r.model_log[i].content)),
           Message("user", "Tool '" \o ToolName(ParseToolCall(r.model_log[i].content).data)
                               \o "' Result: " \o ResultText(r, i))>>

\* C17: while the replies are k pairwise-distinct valid calls to registered
\* tools and then a text (k < max_steps): every model call sees the messages
\* with the observations of all steps before it; a tool runs only after the
\* Status(EXECUTING) of its step and before the Status(THINKING) that follows
\* it; and once the text has been yielded the events are exactly
\* Status(THINKING), k times [Status(EXECUTING, tool), Status(THINKING)],
\* Status(DONE), Chunk(text), with one run of the tool per call
C17_CallsThenAnswer ==
    \A s \in Sessions :
        LET r == run[s]
            n == Len(r.model_log)
        IN \A k \in 0..n :
              DistinctCallsThenText(r, k) =>
                 /\ r.pc = "in_chat" =>
                       /\ n = k /\ Len(r.tool_outcomes) = k
                       /\ r.events = StepEvents(r, k)
                       /\ r.messages = StepMessages(r, k)
                 /\ r.pc = "in_tool" =>
                       /\ Len(r.tool_outcomes) = k - 1
                       /\ Len(r.events) = 2 * k
                       /\ SubSeq(r.events, 1, 2 * k - 1) = StepEvents(r, k - 1)
                       /\ IsStatus(Last(r.events), "EXECUTING")
                       /\ Last(r.events).data.step = k
                       /\ Last(r.tool_log).what = "run_started"
                 /\ r.pc \in {"y_chunk", "returned"} =>
                       /\ n = k + 1 /\ Len(r.tool_outcomes) = k
                       /\ r.events = StepEvents(r, k) \o
                             <<sse_status("DONE", k + 1, r.max_steps, MsgDone),
                               sse_chunk(RawText(r.model_log[k + 1].content))>>
                       /\ r.messages = StepMessages(r, k)
                       /\ Len(r.tool_log) = 2 * k
                       /\ \A i \in 1..k :
                             /\ r.tool_log[2 * i - 1].what = "run_started"
                             /\ r.tool_log[2 * i - 1].step = i
                             /\ r.tool_log[2 * i - 1].signature = SignatureOf(r.model_log[i])
                             /\ r.tool_log[2 * i].what \in {"run_returned", "run_raised"}
                             /\ r.tool_log[2 * i].step = i

\* C17 witness: three different valid calls, each run, then the text, which
\* has been yielded
C17_Witness ==
    \E s \in Sessions :
        LET r == run[s] IN
        /\ Ended(r) /\ Len(r.model_log) = 4 /\ DistinctCallsThenText(r, 3)
        /\ Len(r.events) = 9 /\ IsChunk(Last(r.events))
        /\ Len(r.tool_outcomes) = 3

-----------------------------------------------------------------------------
\* the persona part of the system message: nothing without an agent id, else
\* the agent's prompt (the default one when it has none) and the separator
PersonaPart(agent) ==
    CASE agent.kind = "none" -> ""
      [] agent.kind = "found" /\ agent.prompt # "" -> agent.prompt \o "\n\n---\n\n"
      [] OTHER ->
            "You are a professional knowledge base assistant. Answer based on retrieved content."
                \o "\n\n---\n\n"

\* the base template with the tool schemas in the place of the placeholder
BaseWithSchemas(template_exists) ==
    IF template_exists
    THEN "Agent rules. Tools: [search_knowledge_base(query, top_k)]"
    ELSE "You are a helpful assistant. Tools: [search_knowledge_base(query, top_k)]"

AtFirstModelCall(r) == r.pc = "in_chat" /\ r.current_step = 1

C19_MissingTemplateFallsBack ==
    \A s \in Sessions :
        LET r == run[s] IN
        ~r.template_exists /\ r.agent.kind # "raise" /\ r.pc # "init" =>
           /\ r.pc # "raised" /\ r.exception = ""
           /\ r.events[1] = sse_status("THINKING", 1, r.max_steps, MsgThinking)
           /\ r.messages[1] =
                 Message("system",
                         PersonaPart(r.agent)
                            \o "You are a helpful assistant. Tools: " \o SchemaJson)
           /\ r.max_steps >= 1 => r.pc = "y_thinking0" \/ r.current_step >= 1
           /\ \A i \in 1..Len(r.events) :
                 IsError(r.events[i]) =>
                    \/ r.events[i] \in {sse_error(MsgStepLimit), sse_error(MsgRepeatLimit)}
                    \/ /\ Last(r.model_log).kind = "raise"
                       /\ r.events[i] = sse_error(MsgAgentFailed(Last(r.model_log).text))
                    \/ r.events[i] = sse_error(MsgAgentFailed(RecursionErrorText))

\* C19 witness: the template file is missing, an agent with a prompt is
\* given, and the first model call is under way
C19_Witness ==
    \E s \in Sessions :
        LET r == run[s] IN
        /\ ~r.template_exists /\ r.agent = AgentFound /\ AtFirstModelCall(r)
        /\ Len(r.events) = 1

-----------------------------------------------------------------------------
\* a constraint counts as set unless its key is absent, None or an empty
\* list; require_state_owned counts only when it is true
IsSet(constraints, key) ==
    IF key = "require_state_owned" THEN constraints[key] = JBool(TRUE)
    ELSE constraints[key] \notin {Unset, JNull, JArr(<<>>)}

ValueKeys ==
    {"min_amount", "max_amount", "min_subject_amount", "max_subject_amount",
     "date_after", "date_before"}

\* the number of conditions and of parameters the set constraints call for
NumSet(constraints) ==
    Cardinality({key \in ValueKeys \cup {"project_types", "require_state_owned"} :
                    IsSet(constraints, key)})
NumValues(constraints) ==
    Cardinality({key \in ValueKeys : IsSet(constraints, key)})
        + (IF IsSet(constraints, "project_types") THEN Len(constraints.project_types.a) ELSE 0)

\* C20 as claimed: _build_filter_sql returns one condition for each
\* constraint that is set and one parameter for each filter value, the
\* conditions joined by " AND " (and "1=1" with no parameters when nothing
\* is set); unset, None and empty-list constraints contribute nothing
C20_Original ==
    filter.pc = "returned" =>
        LET c == filter.constraints
            res == filter.result
        IN /\ Len(res.conditions) = NumSet(c)
           /\ Len(res.params) = NumValues(c)
           /\ res.where_clause = (IF NumSet(c) = 0 THEN "1=1" ELSE JoinAnd(res.conditions))

-----------------------------------------------------------------------------
\* the lines of the text and what the claim says about the nodes returned
ParsedLines == SplitLines(parse.markdown)
HeadingLines == {i \in 1..Len(ParsedLines) : HeadingMatch(ParsedLines[i]).matched}
\* 1 when content comes before the first heading (the node "Document"), else 0
Lead == IF Len(ParsedLines) > 0 /\ 1 \notin HeadingLines THEN 1 ELSE 0
NthHeading(j) ==
    CHOOSE i \in HeadingLines : Cardinality({h \in HeadingLines : h <= i}) = j
\* the nearest node before node k that has a strictly smaller level
NearestSmaller(nodes, k) ==
    LET c == {j \in 1..(k - 1) : nodes[j].level < nodes[k].level} IN
    IF c = {} THEN NoNode ELSE CHOOSE j \in c : \A j2 \in c : j >= j2

\* nodes are numbered 1..n in document order, one per heading (after the
\* node "Document" when content comes first); each heading has the level and
\* title of its line and as parent the nearest preceding node of strictly
\* smaller level, or none; so a parent has a smaller id and a smaller level
OutlineOk ==
    LET nodes == parse.nodes IN
    /\ Len(nodes) = Lead + Cardinality(HeadingLines)
    /\ \A k \in 1..Len(nodes) :
          /\ nodes[k].node_id = k
          /\ k > Lead =>
                LET h == HeadingMatch(ParsedLines[NthHeading(k - Lead)]) IN
                /\ nodes[k].level = h.level /\ nodes[k].title = h.title
                /\ nodes[k].parent_id = NearestSmaller(nodes, k)
          /\ k <= Lead => nodes[k].parent_id = NoNode /\ nodes[k].title = "Document"
          /\ nodes[k].parent_id # NoNode =>
                /\ nodes[k].parent_id < nodes[k].node_id
                /\ nodes[nodes[k].parent_id].level < nodes[k].level

\* C21 as claimed: the outline is as above, and a text with no heading
\* yields exactly one node, titled Document, whose content is all the lines
C21_Original ==
    parse.pc = "returned" =>
        /\ OutlineOk
        /\ HeadingLines = {} =>
              /\ Len(parse.nodes) = 1
              /\ parse.nodes[1].title = "Document"
              /\ parse.nodes[1].content = JoinLines(ParsedLines)

\* C21, amended: the outline is as above; a text with at least one line and
\* no heading yields exactly one node, with id 1, no parent, level 1, title
\* Document and as content the lines joined by newlines with the white space
\* at both ends of that text stripped; the empty text yields no node
C21_Amended ==
    parse.pc = "returned" =>
        /\ OutlineOk
        /\ HeadingLines = {} /\ Len(ParsedLines) > 0 =>
              parse.nodes = <<DocumentNode(1, NoNode, 1, "Document",
                                           Strip(JoinLines(ParsedLines)))>>
        /\ Len(ParsedLines) = 0 => parse.nodes = <<>>

\* C21 witness: a text whose content comes first and whose last heading has
\* as parent a node that is not the node right before it (an entry was popped)
C21_Witness ==
    /\ parse.pc = "returned" /\ Len(parse.nodes) = 4
    /\ parse.nodes[1].title = "Document" /\ parse.nodes[1].content = "x"
    /\ parse.nodes[4].parent_id = 2 /\ parse.nodes[3].parent_id = 2
    /\ parse.nodes[3].level = 3 /\ parse.nodes[4].level = 2

-----------------------------------------------------------------------------
\* the observation message of a tool result (line 197) and the corrective
\* message of a repeated call (line 156)
IsObservation(msg, tool_name) ==
    msg.role = "user" /\ StartsWith(msg.content, "Tool '" \o tool_name \o "' Result: ")
IsCorrectiveMessage(msg, tool_name) == msg = Message("user", RepeatMessage(tool_name))

\* what one step of the loop of session s does to its messages: nothing, or
\* it appends the reply of the step's model call as an assistant message and
\* after it the observation or the corrective message
AppendsPairOrNothing(s) ==
    LET before == run[s].messages
        after == run'[s].messages
        n == Len(before)
    IN \/ after = before
       \/ /\ Len(after) = n + 2
          /\ SubSeq(after, 1, n) = before
          /\ Len(run'[s].model_log) > 0
          /\ LET reply == Last(run'[s].model_log) IN
             /\ IsCall(reply)
             /\ after[n + 1] = Message("assistant", RawText(reply.content))
             /\ LET tool_name == ToolName(ParseToolCall(reply.content).data) IN
                \/ IsObservation(after[n + 2], tool_name)
                \/ IsCorrectiveMessage(after[n + 2], tool_name)

\* C22: once the messages of an invocation are built, every step of the loop
\* leaves them unchanged or appends exactly two messages (the model's raw
\* reply as assistant message, then the observation or the corrective
\* message): the length never decreases and no earlier message is changed,
\* reordered or removed
C22_AppendOnly ==
    [][\A s \in Sessions : run[s].pc # "init" => AppendsPairOrNothing(s)]_vars

\* C22 witness: the messages hold the initial ones, then a call with its
\* observation, then the same call again with the corrective message
C22_Witness ==
    \E s \in Sessions :
        LET r == run[s]
            n == Len(r.messages)
        IN /\ n >= 6 /\ r.pc = "y_warning"
           /\ r.messages[n - 3].role = "assistant"
           /\ IsObservation(r.messages[n - 2], "search_knowledge_base")
           /\ r.messages[n - 1] = r.messages[n - 3]
           /\ IsCorrectiveMessage(r.messages[n], "search_knowledge_base")

-----------------------------------------------------------------------------
\* the first n replies of the log are tool calls that alternate between two
\* different calls: A, B, A, B, ...
Alternates(log, n) ==
    /\ n >= 2 /\ Len(log) >= n
    /\ \A i \in 1..n : IsCall(log[i])
    /\ \A i \in 2..n : ~SameCall(log, i - 1, i)
    /\ \A i \in 3..n : SameCall(log, i - 2, i)

IsRepeatWarning(e) == IsStatus(e, "ERROR")
IsRepeatError(e) == e = sse_error(MsgRepeatLimit)
IsFinalAnswer(outcome) ==
    outcome.kind = "response" /\ ParseToolCall(outcome.content).kind = "none"

\* C23: when the latest reply is a call whose signature differs from the one
\* stored before it, repeat_count is 0 and the new signature is the stored
\* one; and while the model alternates between two different calls every
\* call is dispatched (once, in its own step), no repeat warning and no
\* repeated-call Error is yielded, and the invocation ends only by the step
\* limit (after max_steps calls) or, when a text follows the calls, by the
\* final answer
C23_OnlyConsecutiveRepeatsCount ==
    \A s \in Sessions :
        LET r == run[s]
            log == r.model_log
            n == Len(log)
            done(i) == i < r.current_step \/ r.pc \notin {"in_chat", "y_executing"}
            Quiet == /\ Count(r.events, IsRepeatWarning) = 0
                     /\ Count(r.events, IsRepeatError) = 0
                     /\ \A i \in 1..n :
                           IsCall(log[i]) /\ done(i) =>
                              LET signature == SignatureOf(log[i]) IN
                              Cardinality({j \in 1..Len(r.tool_log) :
                                              /\ IsDispatch(r.tool_log[j])
                                              /\ r.tool_log[j].step = i
                                              /\ r.tool_log[j].signature = signature}) = 1
        IN /\ n > 0 /\ IsCall(log[n]) /\ ~IsRepeat(log, n) /\ r.pc # "in_chat"
              => r.repeat_count = 0 /\ r.last_tool_signature = SignatureOf(log[n])
           /\ Alternates(log, n)
              => /\ Quiet
                 /\ r.repeat_count = 0
                 /\ r.pc \in {"y_error", "returned"}
                       => n = r.max_steps /\ Last(r.events) = sse_error(MsgStepLimit)
           /\ n >= 3 /\ Alternates(log, n - 1) /\ IsFinalAnswer(log[n])
              => /\ Quiet
                 /\ Count(r.events, IsError) = 0
                 /\ r.pc = "returned" => IsChunk(Last(r.events))

\* C23 witness: the model alternated between two calls on all four steps;
\* the tool ran four times, and the invocation ended by the step limit
C23_Witness ==
    \E s \in Sessions :
        LET r == run[s] IN
        /\ Ended(r) /\ Len(r.model_log) = 4 /\ Alternates(r.model_log, 4)
        /\ Count(r.tool_log, LAMBDA t : t.what = "run_started") = 4
        /\ Last(r.events) = sse_error(MsgStepLimit)

-----------------------------------------------------------------------------
\* C24 as claimed, for an invocation with a positive max_steps: every Status
\* event carries a step counter that is not greater than its total counter,
\* and the total is max_steps; also the Status(THINKING) yielded after the
\* tool of the last permitted step
C24_Original ==
    \A s \in Sessions :
        run[s].max_steps >= 1 =>
            \A i \in 1..Len(run[s].events) :
                LET e == run[s].events[i] IN
                e.event = "status" =>
                    e.data.total = run[s].max_steps /\ e.data.step <= e.data.total

-----------------------------------------------------------------------------
\* the model calls and the tool executions an invocation has started and
\* not yet seen the end of
ModelCallsInFlight(r) == r.current_step - Len(r.model_log)
ToolRunsInFlight(r) ==
    Count(r.tool_log, LAMBDA t : t.what = "run_started")
        - Count(r.tool_log, LAMBDA t : t.what \in {"run_returned", "run_raised"})

\* C25: an invocation has at most one model call or tool execution in flight;
\* and when the model call of a step after the first is in flight, the step
\* before it has received its reply (a call), every tool execution started
\* has ended, and the messages end with that call and its observation (the
\* text run() returned or raised, when the tool ran) or corrective message
C25_OneAtATime ==
    \A s \in Sessions :
        LET r == run[s]
            n == Len(r.messages)
        IN /\ ModelCallsInFlight(r) \in {0, 1} /\ ToolRunsInFlight(r) \in {0, 1}
           /\ ModelCallsInFlight(r) + ToolRunsInFlight(r) <= 1
           /\ ModelCallsInFlight(r) = 1 <=> r.pc = "in_chat"
           /\ ToolRunsInFlight(r) = 1 <=> r.pc = "in_tool"
           /\ r.pc = "in_chat" /\ r.current_step > 1 =>
                 LET prev == r.model_log[r.current_step - 1]
                     tool_name == ToolName(ParseToolCall(prev.content).data)
                     ran == \E j \in 1..Len(r.tool_log) :
                               /\ r.tool_log[j].step = r.current_step - 1
                               /\ r.tool_log[j].what = "run_started"
                 IN /\ Len(r.model_log) = r.current_step - 1 /\ IsCall(prev)
                    /\ r.messages[n - 1] = Message("assistant", RawText(prev.content))
                    /\ \/ IsObservation(r.messages[n], tool_name)
                       \/ IsCorrectiveMessage(r.messages[n], tool_name)
                    /\ ran =>
                          LET outcome == Last(r.tool_outcomes) IN
                          /\ r.tool_log[Len(r.tool_log)].step = r.current_step - 1
                          /\ r.tool_log[Len(r.tool_log)].what \in {"run_returned", "run_raised"}
                          /\ r.messages[n] =
                                Message("user", "Tool '" \o tool_name \o "' Result: "
                                    \o (IF outcome.kind = "raise"
                                        THEN "Error execution tool: " \o outcome.text
                                        ELSE outcome.text))

\* C25 witness: the model call of the third step is in flight after the tool
\* ran to its end in each of the two steps before
C25_Witness ==
    \E s \in Sessions :
        LET r == run[s] IN
        /\ r.pc = "in_chat" /\ r.current_step = 3
        /\ Len(r.tool_outcomes) = 2
        /\ Count(r.tool_log, LAMBDA t : t.what = "run_started") = 2

-----------------------------------------------------------------------------
\* two JSON values are the same value: mappings with the same keys and the
\* same value under each key, whatever the order of the keys
RECURSIVE SameJson(_, _)
SameJson(v, w) ==
    /\ v.t = w.t
    /\ CASE v.t = "obj" ->
                /\ Len(v.o) = Len(w.o)
                /\ \A i \in 1..Len(v.o) :
                      HasKey(w, v.o[i].k) /\ SameJson(v.o[i].v, Get(w, v.o[i].k))
         [] v.t = "arr" ->
                /\ Len(v.a) = Len(w.a)
                /\ \A i \in 1..Len(v.a) : SameJson(v.a[i], w.a[i])
         [] OTHER -> v = w

CallData(outcome) == ParseToolCall(outcome.content).data
HasMappingArgs(outcome) == IsCall(outcome) /\ Get(CallData(outcome), "args").t = "obj"
\* the reply of step i was taken for a new call: Status(EXECUTING) of step i
TakenAsNew(r, i) ==
    \E j \in 1..Len(r.events) : IsStatus(r.events[j], "EXECUTING") /\ r.events[j].data.step = i

\* C26: of two consecutive tool calls whose args are mappings the second is
\* taken for a repeat of the first (no Status(EXECUTING), no dispatch)
\* exactly when both have the same tool name and the same argument key/value
\* pairs, in whatever order the keys come; a call that differs in the tool
\* name or in an argument value is taken for a new call
C26_SignatureIgnoresKeyOrder ==
    \A s \in Sessions :
        LET r == run[s] IN
        \A i \in 2..Len(r.model_log) :
            HasMappingArgs(r.model_log[i - 1]) /\ HasMappingArgs(r.model_log[i]) =>
                LET a == CallData(r.model_log[i - 1])
                    b == CallData(r.model_log[i])
                    same == /\ ToolName(a) = ToolName(b)
                            /\ SameJson(Get(a, "args"), Get(b, "args"))
                IN /\ same <=> ~TakenAsNew(r, i)
                   /\ same <=> SignatureOf(r.model_log[i - 1]) = SignatureOf(r.model_log[i])
                   /\ ~same =>
                         \/ r.pc = "y_executing" /\ r.current_step = i
                         \/ \E j \in 1..Len(r.tool_log) :
                               r.tool_log[j].step = i /\ IsDispatch(r.tool_log[j])

\* C26 witness: the same call with its keys in the other order was taken for
\* a repeat, and the call with another value of top_k after it for a new call
C26_Witness ==
    \E s \in Sessions :
        LET r == run[s] IN
        /\ Len(r.model_log) = 3
        /\ r.model_log[1].content = CallTopK
        /\ r.model_log[2].content = CallTopKReordered
        /\ r.model_log[3].content = CallTopKOther
        /\ ~TakenAsNew(r, 2) /\ TakenAsNew(r, 3)
        /\ Count(r.events, IsRepeatWarning) = 1

-----------------------------------------------------------------------------
HasTerminal(r) == Len(r.events) > 0 /\ IsLoopTerminal(Last(r.events))

-----------------------------------------------------------------------------
\* the model has returned the same (tool, args) call at every call so far
AlwaysSameCall(r) ==
    \A i \in 1..Len(r.model_log) : SameCall(r.model_log, 1, i)

\* C28: every model call uses up one step of the budget, also one that is
\* answered by a repeat warning (the warning of call i carries step i, and
\* the calls made so far are as many as the steps begun); so with
\* max_steps <= 3 the repeated-call Error is never yielded, and when the
\* model returns the same call every time the invocation ends with the
\* step-limit Error after max_steps calls and max_steps - 1 warnings
C28_RepeatsUseTheBudget ==
    \A s \in Sessions :
        LET r == run[s]
            calls == Len(r.model_log) + (IF r.pc = "in_chat" THEN 1 ELSE 0)
        IN /\ calls = r.current_step
           /\ \A n \in 1..Len(r.events) :
                 IsRepeatWarning(r.events[n])
                    => /\ r.events[n].data.step <= Len(r.model_log)
                       /\ IsRepeat(r.model_log, r.events[n].data.step)
                       /\ \A k \in 1..Len(r.events) :
                             IsRepeatWarning(r.events[k])
                             /\ r.events[k].data.step = r.events[n].data.step => k = n
           /\ r.max_steps <= 3 => Count(r.events, IsRepeatError) = 0
           /\ r.max_steps <= 3 /\ Ended(r) /\ AlwaysSameCall(r)
                 => /\ Len(r.model_log) = r.max_steps
                    /\ Last(r.events) = sse_error(MsgStepLimit)
                    /\ Count(r.events, IsError) = 1 /\ Count(r.events, IsChunk) = 0
                    /\ r.max_steps >= 1 =>
                          Count(r.events, IsRepeatWarning) = r.max_steps - 1

\* C28 witness: max_steps = 3, the same call three times: two warnings, then
\* the step-limit Error
C28_Witness ==
    \E s \in Sessions :
        LET r == run[s] IN
        /\ Ended(r) /\ r.max_steps = 3 /\ Len(r.model_log) = 3 /\ AlwaysSameCall(r)
        /\ Count(r.events, IsRepeatWarning) = 2
        /\ r.repeat_count = repeat_limit
        /\ Last(r.events) = sse_error(MsgStepLimit)
-----------------------------------------------------------------------------
\* the rows the table held before the request, and the rows stored by it
StoredBefore(rows) ==
    IF Len(rows) >= Len(OldRows) /\ SubSeq(rows, 1, Len(OldRows)) = OldRows
    THEN OldRows ELSE <<>>
StoredByTurn(rows) == SubSeq(rows, Len(StoredBefore(rows)) + 1, Len(rows))

\* C29: in one turn of send_chat_message the user message is stored before
\* the loop starts; an assistant message is stored only after the loop has
\* returned and only when it ended with a non-empty Chunk (never after an
\* Error or an empty answer), its content being the Chunk's; a stream that
\* runs to its end has the loop's events and then, as its last event, one
\* done event that carries the id of the stored assistant message, or 0 when
\* none was stored; no event of the loop carries a message id
C29_PersistenceAroundTheLoop ==
    \A s \in Sessions :
        LET e == es[s]
            r == run[s]
            new == StoredByTurn(db)
            first_id == Len(StoredBefore(db)) + 1
            completed == e.pc \in {"y_done", "returned"}
        IN e.pc # "off" =>
           /\ e.pc = "new" => new = <<>>
           /\ r.pc # "init"
                 => /\ Len(new) >= 1
                    /\ new[1] = [message_id |-> first_id, session_id |-> s,
                                 role |-> "user", content |-> e.payload_content]
           /\ Len(new) <= 2
           /\ Len(new) = 2
                 => /\ completed /\ r.pc = "returned"
                    /\ IsChunk(Last(r.events)) /\ Count(r.events, IsError) = 0
                    /\ Len(Last(r.events).data.content) > 0
                    /\ new[2] = [message_id |-> first_id + 1, session_id |-> s,
                                 role |-> "assistant",
                                 content |-> Last(r.events).data.content]
                    /\ Last(e.stream) = sse_done(new[2].message_id)
           /\ completed
                 => /\ r.pc = "returned"
                    /\ e.stream = r.events \o <<Last(e.stream)>>
                    /\ IsDone(Last(e.stream)) /\ Count(e.stream, IsDone) = 1
                    /\ Len(new) = 1
                          => /\ Last(e.stream) = sse_done(0)
                             /\ \/ IsError(Last(r.events))
                                \/ Last(r.events) = sse_chunk("")
                    /\ IsChunk(Last(r.events)) /\ Last(r.events) # sse_chunk("")
                          => Len(new) = 2
           /\ ~completed => Count(e.stream, IsDone) = 0
           /\ \A i \in 1..Len(r.events) : "message_id" \notin DOMAIN r.events[i].data

\* C29 witness: a turn that stored the user message and then the loop's
\* non-empty answer after earlier rows, and ended with done carrying its id
C29_Witness ==
    \E s \in Sessions :
        /\ es[s].pc = "returned" /\ StoredBefore(db) = OldRows
        /\ Len(StoredByTurn(db)) = 2
        /\ Last(db).role = "assistant" /\ Last(db).content = RawText(Answer4)
        /\ Last(es[s].stream) = sse_done(4)
        /\ Len(run[s].tool_log) > 0

\* C29 witness of the other case: the loop ended with an Error, nothing but
\* the user message was stored and done carries 0
C29_WitnessNothingStored ==
    \E s \in Sessions :
        /\ es[s].pc = "returned" /\ Len(StoredByTurn(db)) = 1
        /\ IsError(Last(run[s].events))
        /\ Last(es[s].stream) = sse_done(0)

\* C29 witness of the empty answer: the loop ended with an empty Chunk,
\* nothing but the user message was stored and done carries 0
C29_WitnessEmptyAnswer ==
    \E s \in Sessions :
        /\ es[s].pc = "returned" /\ Len(StoredByTurn(db)) = 1
        /\ Last(run[s].events) = sse_chunk("")
        /\ Last(es[s].stream) = sse_done(0)
-----------------------------------------------------------------------------
\* C30: when the agent lookup raises while the prompt is assembled, the
\* exception leaves run_agent_loop before any event: the invocation yields
\* no Status and no terminal event and calls neither the model nor a tool, it
\* ends by raising the lookup's exception; the stream of send_chat_message
\* that consumes it ends by the same exception, with no event at all
C30_PromptLoadFailurePropagates ==
    \A s \in Sessions :
        LET r == run[s]
            e == es[s]
        IN r.agent.kind = "raise"
              => /\ r.pc \in {"init", "raised"}
                 /\ r.events = <<>> /\ r.model_log = <<>> /\ r.tool_log = <<>>
                 /\ r.pc = "raised" => r.exception = r.agent.text
                 /\ e.stream = <<>>
                 /\ e.pc \notin {"off", "new"} /\ r.pc = "raised"
                       => e.pc = "raised" /\ e.exception = r.agent.text

\* C30 witness: the agent lookup raised and the exception ended both the
\* invocation and the stream that consumed it
C30_Witness ==
    \E s \in Sessions :
        /\ run[s].agent = AgentLookupRaises
        /\ run[s].pc = "raised" /\ run[s].exception = AgentLookupRaises.text
        /\ es[s].pc = "raised" /\ es[s].stream = <<>>
=============================================================================
